---- MODULE Spec2Model ----
(***************************************************************************)
(* lcls-catalog: the Parquet catalog (base + delta snapshot files per      *)
(* experiment directory), its state reconstruction, its delta computation, *)
(* consolidation and the query view, modelled from                         *)
(* src/src/lcls_catalog/parquet_catalog.py.                                *)
(*                                                                         *)
(* A snapshot file is a record [name, rows]; a name is [kind, ts] and      *)
(* stands for "<kind>_<ts>.parquet"; ts is the zero-padded text strftime   *)
(* produces, kept as its sequence of digits and compared as text.          *)
(* A nullable column holds the string "null" (on_disk, status) or the      *)
(* empty tuple (checksum) for NULL.                                        *)
(***************************************************************************)
EXTENDS Integers, FiniteSets, Sequences, TLC

VARIABLES
    tree,       \* the filesystem tree under Root: path -> lstat result
    catalog,    \* catalog_dir: experiment directory -> set of snapshot files
    archive,    \* archive_dir: experiment directory -> set of moved files
    clock,      \* datetime.now(), in ticks
    walked,     \* history: per experiment directory, the tree its last snapshot walked
    last,       \* history: the last operation, its arguments, result and pre-state
    qpc,        \* the reader: its position inside _query_with_dedup
    q,          \* the reader: its locals (the two globs, the rows read)
    w,          \* the writer taken step by step: its position and locals
    tmp,        \* experiment directory -> set of '.parquet.tmp' files
    rd,         \* a reader inside load_current_state: its position and locals
    call        \* one call of a browse operation: the view, the arguments, the result

vars == <<tree, catalog, archive, clock, walked, last, qpc, q, w, tmp, rd, call>>

---------------------------------------------------------------------------
(* Bounds of the model *)

MaxOps == 4        \* snapshot / consolidate calls in one run
MaxEdits == 2      \* changes made to the tree in one run
MaxSize == 2       \* file sizes are 1..MaxSize
MaxMtime == 2      \* modification times are 1..MaxMtime
FirstTick == 8     \* the clock's reading at the first call
MaxRows == 2       \* rows of the view a browse call is applied to
MaxScans == 2      \* snapshots of one run of the walker and the scanner

Root == "/r"
Paths == {"/r/a", "/r/b"}
Sizes == 1..MaxSize
Mtimes == 1..MaxMtime
\* st_mode of a regular file: 0o100644 (readable by the caller), 0o100000 (not)
Modes == {33188, 32768}
NoLabel == "None"
Labels == {"e1", NoLabel}
\* snapshot's workers argument: the sequential walk and the parallel one
Workers == {1, 2}

NullStr == "null"
NoChecksum == <<>>

---------------------------------------------------------------------------
(* File names and their text order *)

\* a format without the zero padding
Strftime_unpadded(t) == IF t < 10 THEN <<t>> ELSE <<t \div 10, t % 10>>

\* datetime.now().strftime("%Y-%m-%dT%H%M%S.%f"): fixed width, zero padded
Strftime(t) == <<t \div 10, t % 10>>

\* Python's str comparison on two texts of digits
RECURSIVE TextLess(_, _)
TextLess(a, b) ==
    IF a = <<>> THEN b # <<>>
    ELSE IF b = <<>> THEN FALSE
    ELSE IF Head(a) # Head(b) THEN Head(a) < Head(b)
    ELSE TextLess(Tail(a), Tail(b))

\* "base_..." sorts before "delta_..."; within a kind the timestamps decide
NameLess(m, n) ==
    IF m.kind # n.kind THEN m.kind = "base" ELSE TextLess(m.ts, n.ts)

FileName(kind, timestamp) == [kind |-> kind, ts |-> timestamp]

\* sorted(...) of a set of files by name
RECURSIVE SortedByName(_)
SortedByName(S) ==
    IF S = {} THEN <<>>
    ELSE LET f == CHOOSE x \in S : \A y \in S : y = x \/ NameLess(x.name, y.name)
         IN  <<f>> \o SortedByName(S \ {f})

\* hashlib.md5(root.encode()).hexdigest()[:8]
Md5Prefix(root) == "md5:" \o root

_get_exp_dir(root, experiment) ==
    IF experiment # NoLabel THEN experiment ELSE Md5Prefix(root)

ExpDirs == {_get_exp_dir(Root, e) : e \in Labels}

\* sum(f[x] for x in S)
RECURSIVE SumOver(_, _)
SumOver(S, f) ==
    IF S = {} THEN 0
    ELSE LET x == CHOOSE y \in S : TRUE IN f[x] + SumOver(S \ {x}, f)

---------------------------------------------------------------------------
(* Scanning the tree *)

Readable(stat) == stat.permissions = 33188

\* hashlib.sha256 over the content; the content of a file is known by its size
Sha256(stat) == <<"sha256", stat.size>>

\* None (the empty set) or one metadata record
_process_file(fpath, compute_checksum, experiment, indexed_at) ==
    LET stat == tree[fpath] IN
    IF compute_checksum /\ ~Readable(stat)
    THEN {}
    ELSE {[path |-> fpath,
           size |-> stat.size,
           mtime |-> stat.mtime,
           permissions |-> stat.permissions,
           checksum |-> IF compute_checksum THEN Sha256(stat) ELSE NoChecksum,
           experiment |-> experiment,
           indexed_at |-> indexed_at]}

\* os.walk + _process_batch: current_files, keyed by path
Walk(compute_checksum, experiment, indexed_at) ==
    LET ok == {p \in DOMAIN tree :
                 _process_file(p, compute_checksum, experiment, indexed_at) # {}}
    IN  [p \in ok |-> CHOOSE r \in
             _process_file(p, compute_checksum, experiment, indexed_at) : TRUE]

---------------------------------------------------------------------------
(* Rows and the reconstructed state *)

\* a row that is flagged on_disk=true whenever no flag is given
Row_flagged(meta, on_disk, status) ==
    [path |-> meta.path, size |-> meta.size, mtime |-> meta.mtime,
     permissions |-> meta.permissions, checksum |-> meta.checksum,
     experiment |-> meta.experiment, indexed_at |-> meta.indexed_at,
     on_disk |-> IF on_disk = NullStr THEN "true" ELSE on_disk, status |-> status]

\* a row of a snapshot file: the metadata plus the two discriminator columns
Row(meta, on_disk, status) ==
    [path |-> meta.path, size |-> meta.size, mtime |-> meta.mtime,
     permissions |-> meta.permissions, checksum |-> meta.checksum,
     experiment |-> meta.experiment, indexed_at |-> meta.indexed_at,
     on_disk |-> on_disk, status |-> status]

\* an entry of the reconstructed state: the row without its status
Entry(row, on_disk) ==
    [path |-> row.path, size |-> row.size, mtime |-> row.mtime,
     permissions |-> row.permissions, checksum |-> row.checksum,
     experiment |-> row.experiment, indexed_at |-> row.indexed_at,
     on_disk |-> on_disk]

EmptyState == [p \in {} |-> NullStr]

\* the oldest base instead of the latest
_find_latest_base_oldest(files) ==
    LET base_files == SortedByName({f \in files : f.name.kind = "base"})
    IN  IF base_files = <<>> THEN {} ELSE {base_files[1]}

_find_latest_base(files) ==
    LET base_files == SortedByName({f \in files : f.name.kind = "base"})
    IN  IF base_files = <<>> THEN {} ELSE {base_files[Len(base_files)]}

_find_deltas_after_base(files, base_file) ==
    LET delta_files == SortedByName({f \in files : f.name.kind = "delta"})
        paired == [base_file.name EXCEPT !.kind = "delta"]
    IN  SelectSeq(delta_files, LAMBDA d : NameLess(paired, d.name))

\* a removal that drops the entry instead of marking it
ApplyRow_dropping(state, record) ==
    IF record.status = "removed"
    THEN [p \in DOMAIN state \ {record.path} |-> state[p]]
    ELSE [p \in DOMAIN state \cup {record.path} |->
            IF p = record.path THEN Entry(record, "true") ELSE state[p]]

ApplyRow(state, record) ==
    IF record.status = "removed"
    THEN IF record.path \in DOMAIN state
         THEN [state EXCEPT ![record.path] =
                  [@ EXCEPT !.on_disk = "false", !.indexed_at = record.indexed_at]]
         ELSE state
    ELSE [p \in DOMAIN state \cup {record.path} |->
            IF p = record.path THEN Entry(record, "true") ELSE state[p]]

RECURSIVE ApplyRows(_, _)
ApplyRows(state, rows) ==
    IF rows = {} THEN state
    ELSE LET r == CHOOSE x \in rows : TRUE
         IN  ApplyRows(ApplyRow(state, r), rows \ {r})

RECURSIVE ApplyDeltas(_, _)
ApplyDeltas(state, deltas) ==
    IF deltas = <<>> THEN state
    ELSE ApplyDeltas(ApplyRows(state, Head(deltas).rows), Tail(deltas))

load_current_state(files) ==
    LET base == _find_latest_base(files) IN
    IF base = {} THEN EmptyState
    ELSE LET base_file == CHOOSE f \in base : TRUE
             state == [p \in {r.path : r \in base_file.rows} |->
                          LET r == CHOOSE x \in base_file.rows : x.path = p
                          IN  Entry(r, r.on_disk)]
         IN  ApplyDeltas(state, _find_deltas_after_base(files, base_file))

---------------------------------------------------------------------------
(* Writing a snapshot *)

\* a rename after which the new file is the only file of the directory
Rename_alone(files, file) == {file}

\* temp_path.rename(output_path): the file appears under its final name
Rename(files, file) == {f \in files : f.name # file.name} \cup {file}

\* a base writer without the check for an empty input
_write_base_always(files, timestamp, current_files) ==
    LET records == {Row(current_files[p], "true", NullStr) : p \in DOMAIN current_files}
    IN  [files |-> Rename(files, [name |-> FileName("base", timestamp),
                                  rows |-> records]),
         ret |-> <<Cardinality(records), 0, 0>>]

_write_base(files, timestamp, current_files) ==
    LET records == {Row(current_files[p], "true", NullStr) : p \in DOMAIN current_files}
    IN  IF records = {}
        THEN [files |-> files, ret |-> <<0, 0, 0>>]
        ELSE [files |-> Rename(files, [name |-> FileName("base", timestamp),
                                       rows |-> records]),
              ret |-> <<Cardinality(records), 0, 0>>]

\* a change detector that looks at the size only
_file_changed_size_only(current, previous) ==
    current.size # previous.size

\* a change detector that also looks at the permissions
_file_changed_with_permissions(current, previous) ==
    \/ current.size # previous.size
    \/ current.mtime # previous.mtime
    \/ current.permissions # previous.permissions

_file_changed(current, previous) ==
    current.size # previous.size \/ current.mtime # previous.mtime

\* the three sets of paths _write_delta counts
\* only a path the previous state has never held counts as added
AddedPaths_new_only(current_files, previous_state) ==
    {p \in DOMAIN current_files : p \notin DOMAIN previous_state}

AddedPaths(current_files, previous_state) ==
    {p \in DOMAIN current_files :
        \/ p \notin DOMAIN previous_state
        \/ previous_state[p].on_disk # "true"}

ModifiedPaths(current_files, previous_state) ==
    {p \in DOMAIN current_files :
        /\ p \in DOMAIN previous_state
        /\ previous_state[p].on_disk = "true"
        /\ _file_changed(current_files[p], previous_state[p])}

\* a removal reported for every tracked path that is not in the walk, also for
\* the paths already recorded as removed
RemovedPaths_again(current_files, previous_state) ==
    {p \in DOMAIN previous_state : p \notin DOMAIN current_files}

RemovedPaths(current_files, previous_state) ==
    {p \in DOMAIN previous_state :
        p \notin DOMAIN current_files /\ previous_state[p].on_disk = "true"}

\* a delta writer without the check for an empty change-set
_write_delta_always(files, timestamp, current_files, previous_state) ==
    LET added == AddedPaths(current_files, previous_state)
        modified == ModifiedPaths(current_files, previous_state)
        removed == RemovedPaths(current_files, previous_state)
        delta_records ==
            {Row(current_files[p], NullStr, "added") : p \in added}
            \cup {Row(current_files[p], NullStr, "modified") : p \in modified}
            \cup {Row([previous_state[p] EXCEPT !.indexed_at = timestamp],
                      NullStr, "removed") : p \in removed}
    IN  [files |-> Rename(files, [name |-> FileName("delta", timestamp),
                                  rows |-> delta_records]),
         ret |-> <<Cardinality(added), Cardinality(modified),
                   Cardinality(removed)>>]

_write_delta(files, timestamp, current_files, previous_state) ==
    LET added == AddedPaths(current_files, previous_state)
        modified == ModifiedPaths(current_files, previous_state)
        removed == RemovedPaths(current_files, previous_state)
        delta_records ==
            {Row(current_files[p], NullStr, "added") : p \in added}
            \cup {Row(current_files[p], NullStr, "modified") : p \in modified}
            \cup {Row([previous_state[p] EXCEPT !.indexed_at = timestamp],
                      NullStr, "removed") : p \in removed}
    IN  IF delta_records = {}
        THEN [files |-> files, ret |-> <<0, 0, 0>>]
        ELSE [files |-> Rename(files, [name |-> FileName("delta", timestamp),
                                       rows |-> delta_records]),
              ret |-> <<Cardinality(added), Cardinality(modified),
                        Cardinality(removed)>>]

\* a snapshot that starts a new base when the previous state holds no file
\* on disk
snapshot_rebasing(files, timestamp, compute_checksum, experiment) ==
    LET current_files == Walk(compute_checksum, experiment, timestamp)
        previous_state == load_current_state(files)
    IN  IF \A p \in DOMAIN previous_state : previous_state[p].on_disk # "true"
        THEN _write_base(files, timestamp, current_files)
        ELSE _write_delta(files, timestamp, current_files, previous_state)

snapshot(files, timestamp, compute_checksum, experiment) ==
    LET current_files == Walk(compute_checksum, experiment, timestamp)
        previous_state == load_current_state(files)
    IN  IF DOMAIN previous_state = {}
        THEN _write_base(files, timestamp, current_files)
        ELSE _write_delta(files, timestamp, current_files, previous_state)

---------------------------------------------------------------------------
(* Consolidation *)

\* a consolidation that leaves the old base where it is
consolidate_dir_keeping_base(files, timestamp) ==
    LET state == load_current_state(files)
        records == {Row(state[p], state[p].on_disk, NullStr) : p \in DOMAIN state}
        new_base == [name |-> FileName("base", timestamp), rows |-> records]
    IN  IF Cardinality(files) <= 1 \/ DOMAIN state = {}
        THEN [files |-> files, old |-> {}, touched |-> 0]
        ELSE [files |-> {new_base} \cup {f \in files : f.name.kind = "base"},
              old |-> {f \in files : f.name.kind = "delta"},
              touched |-> 1]

\* a consolidation that flags every row of the new base on_disk=true
consolidate_dir_all_on_disk(files, timestamp) ==
    LET state == load_current_state(files)
        records == {Row(state[p], "true", NullStr) : p \in DOMAIN state}
        new_base == [name |-> FileName("base", timestamp), rows |-> records]
    IN  IF Cardinality(files) <= 1 \/ DOMAIN state = {}
        THEN [files |-> files, old |-> {}, touched |-> 0]
        ELSE [files |-> {new_base},
              old |-> {f \in files : f.name # new_base.name},
              touched |-> 1]

\* a consolidation that takes every directory with a file, also one that
\* holds a single file
consolidate_dir_single(files, timestamp) ==
    LET state == load_current_state(files)
        records == {Row(state[p], state[p].on_disk, NullStr) : p \in DOMAIN state}
        new_base == [name |-> FileName("base", timestamp), rows |-> records]
    IN  IF DOMAIN state = {}
        THEN [files |-> files, old |-> {}, touched |-> 0]
        ELSE [files |-> {new_base},
              old |-> {f \in files : f.name # new_base.name},
              touched |-> 1]

\* one experiment directory: the files it holds afterwards, and the old files
\* that were deleted or moved
consolidate_dir(files, timestamp) ==
    LET state == load_current_state(files)
        records == {Row(state[p], state[p].on_disk, NullStr) : p \in DOMAIN state}
        new_base == [name |-> FileName("base", timestamp), rows |-> records]
    IN  IF Cardinality(files) <= 1 \/ DOMAIN state = {}
        THEN [files |-> files, old |-> {}, touched |-> 0]
        ELSE [files |-> {new_base},
              old |-> {f \in files : f.name # new_base.name},
              touched |-> 1]

---------------------------------------------------------------------------
(* The query layer *)

\* self.catalog_dir.glob("*/*.parquet"): the experiment directories holding a file
GlobAll(cat) == {d \in ExpDirs : cat[d] # {}}

\* self.catalog_dir.glob("*/delta_*.parquet")
GlobDeltas(cat) == {d \in ExpDirs : \E f \in cat[d] : f.name.kind = "delta"}

\* read_parquet over the files of the given directories: every row of every file,
\* kept apart by the file it comes from (a relation is a bag of rows)
ReadParquet(cat, dirs) ==
    UNION {UNION {{[dir |-> d, name |-> f.name, row |-> r] : r \in f.rows} :
                     f \in cat[d]} : d \in dirs}

\* a row of the logical relation 'files': the columns and the derived on_disk
ViewRow(t, on_disk) ==
    [src |-> <<t.dir, t.name>>,
     path |-> t.row.path, size |-> t.row.size, mtime |-> t.row.mtime,
     permissions |-> t.row.permissions, checksum |-> t.row.checksum,
     experiment |-> t.row.experiment, indexed_at |-> t.row.indexed_at,
     on_disk |-> on_disk]

\* COALESCE(on_disk, true)
Coalesce(t) == IF t.row.on_disk # NullStr THEN t.row.on_disk ELSE "true"

\* CASE WHEN on_disk IS NOT NULL THEN on_disk
\*      WHEN status IS NOT NULL THEN status != 'removed' ELSE true END
EffectiveOnDisk(t) ==
    IF t.row.on_disk # NullStr THEN t.row.on_disk
    ELSE IF t.row.status # NullStr
         THEN (IF t.row.status # "removed" THEN "true" ELSE "false")
         ELSE "true"

\* the rows that ROW_NUMBER() OVER (PARTITION BY path ORDER BY indexed_at DESC)
\* may number 1: those no row of the same path follows in indexed_at
RankFirst(rows) ==
    {t \in rows : \A o \in rows :
        o.row.path = t.row.path => ~TextLess(t.row.indexed_at, o.row.indexed_at)}

\* WHERE _rn = 1: one row per path; each way of breaking a tie is a result
Ranked(rows) ==
    LET top == RankFirst(rows)
        paths == {t.row.path : t \in top}
    IN  {{pick[p] : p \in paths} :
            pick \in {f \in [paths -> top] : \A p \in paths : f[p].row.path = p}}

QueryError == [ok |-> FALSE, files |-> {}]
QueryOk(files) == [ok |-> TRUE, files |-> files]

\* the relation 'files' the sql runs against, given what the two globs returned
\* and the catalog as it is when DuckDB expands the patterns and reads; the set
\* of possible outcomes (an error when no file matches)
_query_with_dedup(all_exps, exps_with_deltas, cat) ==
    LET exps_base_only == all_exps \ exps_with_deltas IN
    IF exps_with_deltas = {}
    THEN IF \A d \in ExpDirs : cat[d] = {}
         THEN {QueryError}
         ELSE {QueryOk({ViewRow(t, Coalesce(t)) : t \in ReadParquet(cat, ExpDirs)})}
    ELSE IF exps_base_only = {}
    THEN IF \A d \in ExpDirs : cat[d] = {}
         THEN {QueryError}
         ELSE {QueryOk({ViewRow(t, EffectiveOnDisk(t)) : t \in ranked}) :
                  ranked \in Ranked(ReadParquet(cat, ExpDirs))}
    ELSE IF \A d \in all_exps : cat[d] = {}
         THEN {QueryError}
         ELSE {QueryOk({ViewRow(t, Coalesce(t)) :
                            t \in ReadParquet(cat, exps_base_only)}
                       \cup {ViewRow(t, EffectiveOnDisk(t)) : t \in ranked}) :
                  ranked \in Ranked(ReadParquet(cat, exps_with_deltas))}

\* a query that runs with no writer in between
Query(cat) == _query_with_dedup(GlobAll(cat), GlobDeltas(cat), cat)

\* SELECT COUNT(*) FROM files [WHERE on_disk = true]
count(files, on_disk_only) ==
    Cardinality({r \in files : on_disk_only => r.on_disk = "true"})

\* SELECT COALESCE(SUM(size), 0) FROM files [WHERE on_disk = true]
total_size(files, on_disk_only) ==
    LET sel == {r \in files : on_disk_only => r.on_disk = "true"}
    IN  SumOver(sel, [r \in sel |-> r.size])

---------------------------------------------------------------------------
(* The state machine *)

NoResult == [op |-> "none", exp_dir |-> NullStr, experiment |-> NullStr,
             checksum |-> FALSE, ret |-> <<0, 0, 0>>,
             stats |-> <<0, 0, 0>>, before |-> [d \in ExpDirs |-> {}],
             walked_before |-> {}, edits |-> 0, archive_dir |-> FALSE]

\* the writer before its first call
NoWriter ==
    [pc |-> "idle", op |-> "none", dir |-> NullStr, todo |-> {},
     archive_dir |-> FALSE, file |-> [name |-> FileName("base", <<0, 0>>), rows |-> {}],
     old |-> {}, ret |-> <<0, 0, 0>>, stats |-> <<0, 0, 0>>,
     experiment |-> NullStr, before |-> [d \in ExpDirs |-> {}],
     walked_before |-> {}]

\* the reader before its call
NoReader ==
    [pc |-> "idle", dir |-> NullStr, base |-> FileName("base", <<0, 0>>),
     deltas |-> <<>>, state |-> EmptyState, tick |-> 0, busy |-> FALSE]

\* no browse call
NoCall == [pc |-> "none"]

\* the state after construction, but for the browse call
InitCatalog ==
    /\ tree = [p \in Paths |-> [size |-> 1, mtime |-> 1, permissions |-> 33188]]
    /\ catalog = [d \in ExpDirs |-> {}]
    /\ archive = [d \in ExpDirs |-> {}]
    /\ clock = FirstTick
    /\ walked = [d \in ExpDirs |-> {}]
    /\ last = NoResult
    /\ qpc = "idle"
    /\ q = [all_exps |-> {}, exps_with_deltas |-> {}, out |-> QueryError,
            start |-> [d \in ExpDirs |-> {}]]
    /\ w = NoWriter
    /\ tmp = [d \in ExpDirs |-> {}]
    /\ rd = NoReader

Init == InitCatalog /\ call = NoCall

\* a change of the tree forgets the last call's record
Edited == [NoResult EXCEPT !.edits = last.edits + 1]

\* a file is created under the root
CreateFile(p, size, mtime) ==
    /\ last.edits < MaxEdits
    /\ p \notin DOMAIN tree
    /\ tree' = [x \in DOMAIN tree \cup {p} |->
                  IF x = p THEN [size |-> size, mtime |-> mtime, permissions |-> 33188]
                  ELSE tree[x]]
    /\ last' = Edited
    /\ UNCHANGED <<catalog, archive, clock, walked, qpc, q, w, tmp, rd, call>>

\* a file is deleted
DeleteFile(p) ==
    /\ last.edits < MaxEdits
    /\ p \in DOMAIN tree
    /\ tree' = [x \in DOMAIN tree \ {p} |-> tree[x]]
    /\ last' = Edited
    /\ UNCHANGED <<catalog, archive, clock, walked, qpc, q, w, tmp, rd, call>>

\* a file is rewritten: its size or its mtime (or both) change
WriteFile(p, size, mtime) ==
    /\ last.edits < MaxEdits
    /\ p \in DOMAIN tree
    /\ <<size, mtime>> # <<tree[p].size, tree[p].mtime>>
    /\ tree' = [tree EXCEPT ![p].size = size, ![p].mtime = mtime]
    /\ last' = Edited
    /\ UNCHANGED <<catalog, archive, clock, walked, qpc, q, w, tmp, rd, call>>

\* chmod: the mode changes, size and mtime do not
Chmod(p, mode) ==
    /\ last.edits < MaxEdits
    /\ p \in DOMAIN tree
    /\ mode # tree[p].permissions
    /\ tree' = [tree EXCEPT ![p].permissions = mode]
    /\ last' = Edited
    /\ UNCHANGED <<catalog, archive, clock, walked, qpc, q, w, tmp, rd, call>>

\* ParquetCatalog.snapshot(Root, experiment, compute_checksum); a run makes at
\* most max_calls calls of snapshot and consolidate
Snapshot(experiment, compute_checksum, max_calls) ==
    /\ clock < FirstTick + max_calls
    /\ LET exp_dir == _get_exp_dir(Root, experiment)
           out == snapshot(catalog[exp_dir], Strftime(clock), compute_checksum, experiment)
       IN  /\ catalog' = [catalog EXCEPT ![exp_dir] = out.files]
           /\ walked' = [walked EXCEPT ![exp_dir] = {tree}]
           /\ last' = [last EXCEPT !.op = "snapshot", !.exp_dir = exp_dir,
                          !.experiment = experiment,
                          !.checksum = compute_checksum, !.ret = out.ret,
                          !.before = catalog, !.walked_before = walked[exp_dir]]
    /\ clock' = clock + 1
    /\ UNCHANGED <<tree, archive, qpc, q, w, tmp, rd, call>>

\* ParquetCatalog.consolidate(archive_dir)
Consolidate(with_archive, max_calls) ==
    /\ clock < FirstTick + max_calls
    /\ LET out == [d \in ExpDirs |-> consolidate_dir(catalog[d], Strftime(clock))]
           nold == SumOver(ExpDirs, [d \in ExpDirs |-> Cardinality(out[d].old)])
       IN  /\ catalog' = [d \in ExpDirs |-> out[d].files]
           /\ archive' = [d \in ExpDirs |->
                            IF with_archive THEN archive[d] \cup out[d].old
                            ELSE archive[d]]
           /\ last' = [last EXCEPT !.op = "consolidate",
                          !.stats = <<SumOver(ExpDirs, [d \in ExpDirs |-> out[d].touched]),
                                      IF with_archive THEN 0 ELSE nold,
                                      IF with_archive THEN nold ELSE 0>>,
                          !.before = catalog, !.archive_dir = with_archive]
    /\ clock' = clock + 1
    /\ UNCHANGED <<tree, walked, qpc, q, w, tmp, rd, call>>

\* The reader, one call of _query_with_dedup in three steps: the glob for
\* all_exps, the glob for exps_with_deltas, then DuckDB's read of the patterns.
QueryGlobAll ==
    /\ qpc = "idle"
    /\ q' = [q EXCEPT !.all_exps = GlobAll(catalog), !.start = catalog]
    /\ qpc' = "all_exps"
    /\ UNCHANGED <<tree, catalog, archive, clock, walked, last, w, tmp, rd, call>>

QueryGlobDeltas ==
    /\ qpc = "all_exps"
    /\ q' = [q EXCEPT !.exps_with_deltas = GlobDeltas(catalog)]
    /\ qpc' = "exps_with_deltas"
    /\ UNCHANGED <<tree, catalog, archive, clock, walked, last, w, tmp, rd, call>>

QueryExecute ==
    /\ qpc = "exps_with_deltas"
    /\ \E out \in _query_with_dedup(q.all_exps, q.exps_with_deltas, catalog) :
           q' = [q EXCEPT !.out = out]
    /\ qpc' = "done"
    /\ UNCHANGED <<tree, catalog, archive, clock, walked, last, w, tmp, rd, call>>

Next ==
    \/ \E p \in Paths, s \in Sizes, m \in Mtimes : CreateFile(p, s, m)
    \/ \E p \in Paths : DeleteFile(p)
    \/ \E p \in Paths, s \in Sizes, m \in Mtimes : WriteFile(p, s, m)
    \/ \E p \in Paths, mode \in Modes : Chmod(p, mode)
    \/ \E e \in Labels, c \in BOOLEAN : Snapshot(e, c, MaxOps)
    \/ \E a \in BOOLEAN : Consolidate(a, MaxOps)

Spec == Init /\ [][Next]_vars

\* longer runs of the plain calls: no checksum, no archive directory, no chmod
NextDeep ==
    \/ \E p \in Paths, s \in Sizes, m \in Mtimes : CreateFile(p, s, m)
    \/ \E p \in Paths : DeleteFile(p)
    \/ \E p \in Paths, s \in Sizes, m \in Mtimes : WriteFile(p, s, m)
    \/ \E e \in Labels : Snapshot(e, FALSE, MaxOps + 1)
    \/ Consolidate(FALSE, MaxOps + 1)

SpecDeep == Init /\ [][NextDeep]_vars

\* the writers with one reader running beside them
NextConcurrent ==
    \/ \E p \in Paths, s \in Sizes, m \in Mtimes : CreateFile(p, s, m)
    \/ \E p \in Paths : DeleteFile(p)
    \/ \E p \in Paths, s \in Sizes, m \in Mtimes : WriteFile(p, s, m)
    \/ \E e \in Labels : Snapshot(e, FALSE, MaxOps - 1)
    \/ Consolidate(FALSE, MaxOps - 1)
    \/ QueryGlobAll
    \/ QueryGlobDeltas
    \/ QueryExecute

SpecConcurrent == Init /\ [][NextConcurrent]_vars

---------------------------------------------------------------------------
(* What the claims speak about, in the state a call has just produced *)

IsSnapshot == last.op = "snapshot"
IsConsolidate == last.op = "consolidate"

\* the reconstructed state of the snapshot's experiment before and after the call
Before == load_current_state(last.before[last.exp_dir])
After == load_current_state(catalog[last.exp_dir])

\* the call's timestamp and the records its walk produced (the tree is the one
\* the call walked: a change of the tree resets last.op)
LastStamp == Strftime(clock - 1)
Scanned == Walk(last.checksum, last.experiment, LastStamp)

\* the files the call added to its experiment directory
NewFiles == catalog[last.exp_dir] \ last.before[last.exp_dir]

OnDiskPaths(state) == {p \in DOMAIN state : state[p].on_disk = "true"}
OffDiskPaths(state) == {p \in DOMAIN state : state[p].on_disk = "false"}

\* the state a single first snapshot of the walked tree produces
FreshState == load_current_state(_write_base({}, LastStamp, Scanned).files)

SameButIndexedAt(a, b) ==
    [a EXCEPT !.indexed_at = <<>>] = [b EXCEPT !.indexed_at = <<>>]

\* count() and total_size() as a query with no writer beside it answers them:
\* the set of possible answers; an error (no snapshot file at all) reads as 0
Counts(cat, on_disk_only) ==
    {IF out.ok THEN count(out.files, on_disk_only) ELSE 0 : out \in Query(cat)}
TotalSizes(cat, on_disk_only) ==
    {IF out.ok THEN total_size(out.files, on_disk_only) ELSE 0 : out \in Query(cat)}

---------------------------------------------------------------------------
(* The writer and load_current_state, step by step *)

\* no call of snapshot or consolidate is running; a run ends its writing with
\* the first call that crashed or raised
WriterFree == w.pc = "idle"

\* a call of snapshot or consolidate is part-way
WriterBusy == w.pc \in {"next", "writing", "written", "cleanup"}

\* pq.write_table(table, temp_path) has begun: the temp file holds some of
\* the rows
WriteTemp(temps, file, written) == temps \cup {[name |-> file.name, rows |-> written]}

\* the rows a write may have put down before it is complete
PartialRows(file) == SUBSET file.rows \ {file.rows}

\* snapshot() up to the start of its write; with nothing to write it returns
BeginSnapshot(experiment) ==
    /\ WriterFree
    /\ clock < FirstTick + MaxOps - 1
    /\ LET exp_dir == _get_exp_dir(Root, experiment)
           out == snapshot(catalog[exp_dir], Strftime(clock), FALSE, experiment)
           new == out.files \ catalog[exp_dir]
       IN  IF new = {}
           THEN /\ w' = [NoWriter EXCEPT !.op = "snapshot", !.dir = exp_dir,
                            !.before = catalog, !.experiment = experiment]
                /\ last' = [last EXCEPT !.op = "snapshot", !.exp_dir = exp_dir,
                               !.experiment = experiment, !.checksum = FALSE,
                               !.ret = out.ret, !.before = catalog,
                               !.walked_before = walked[exp_dir]]
                /\ tmp' = tmp
           ELSE /\ \E file \in new : \E written \in PartialRows(file) :
                     /\ w' = [NoWriter EXCEPT !.pc = "writing", !.op = "snapshot",
                                 !.dir = exp_dir, !.file = file, !.ret = out.ret,
                                 !.before = catalog, !.experiment = experiment,
                                 !.walked_before = walked[exp_dir]]
                     /\ tmp' = [tmp EXCEPT ![exp_dir] = WriteTemp(@, file, written)]
                /\ last' = last
    /\ walked' = [walked EXCEPT ![_get_exp_dir(Root, experiment)] = {tree}]
    /\ clock' = clock + 1
    /\ UNCHANGED <<tree, catalog, archive, qpc, q, rd, call>>

\* consolidate() up to its loop over the experiment directories
BeginConsolidate(with_archive) ==
    /\ WriterFree
    /\ clock < FirstTick + MaxOps - 1
    /\ w' = [NoWriter EXCEPT !.pc = "next", !.op = "consolidate",
                !.todo = ExpDirs, !.archive_dir = with_archive,
                !.file = [name |-> FileName("base", Strftime(clock)), rows |-> {}],
                !.before = catalog]
    /\ clock' = clock + 1
    /\ UNCHANGED <<tree, catalog, archive, walked, last, qpc, q, tmp, rd, call>>

\* consolidate: the next directory of iterdir(), skipped or taken up to the
\* start of the write of its new base; after the last directory, the return
ConsolidateNextDir ==
    /\ w.pc = "next"
    /\ IF w.todo = {}
       THEN /\ w' = [w EXCEPT !.pc = "idle"]
            /\ last' = [last EXCEPT !.op = "consolidate", !.stats = w.stats,
                           !.before = w.before, !.archive_dir = w.archive_dir]
            /\ tmp' = tmp
       ELSE \E d \in w.todo :
              LET out == consolidate_dir(catalog[d], w.file.name.ts)
                  new_base == CHOOSE f \in out.files : f.name = w.file.name
              IN  IF out.touched = 0
                  THEN /\ w' = [w EXCEPT !.todo = @ \ {d}]
                       /\ tmp' = tmp
                       /\ last' = last
                  ELSE \E written \in PartialRows(new_base) :
                       /\ w' = [w EXCEPT !.pc = "writing", !.dir = d,
                                   !.todo = @ \ {d}, !.file = new_base,
                                   !.old = out.old]
                       /\ tmp' = [tmp EXCEPT ![d] = WriteTemp(@, new_base, written)]
                       /\ last' = last
    /\ UNCHANGED <<tree, catalog, archive, clock, walked, qpc, q, rd, call>>

\* pq.write_table returns: the temp file is complete
WriteTableDone ==
    /\ w.pc = "writing"
    /\ w' = [w EXCEPT !.pc = "written"]
    /\ tmp' = [tmp EXCEPT ![w.dir] =
                  {t \in @ : t.name # w.file.name} \cup {w.file}]
    /\ UNCHANGED <<tree, catalog, archive, clock, walked, last, qpc, q, rd, call>>

\* pq.write_table raises: nothing in the callers catches it, the error reaches
\* the caller of snapshot / consolidate; the library has left the partial temp
\* file behind or has removed it
WriteTableFails(left_behind) ==
    /\ w.pc = "writing"
    /\ w' = [w EXCEPT !.pc = "failed"]
    /\ tmp' = [tmp EXCEPT ![w.dir] =
                  IF left_behind THEN @ ELSE {t \in @ : t.name # w.file.name}]
    /\ UNCHANGED <<tree, catalog, archive, clock, walked, last, qpc, q, rd, call>>

\* a writer that renames without waiting for the write to return
CanRename_early(pc) == pc \in {"writing", "written"}

\* the rename is the statement after pq.write_table: it runs once that returned
CanRename(pc) == pc = "written"

\* temp_path.rename(output_path): the temp file, as it is, gets the final name.
\* snapshot returns after it; consolidate goes on to the old files
RenameTemp ==
    /\ CanRename(w.pc)
    /\ \E t \in tmp[w.dir] :
         /\ t.name = w.file.name
         /\ catalog' = [catalog EXCEPT ![w.dir] = Rename(@, t)]
         /\ tmp' = [tmp EXCEPT ![w.dir] = @ \ {t}]
    /\ IF w.op = "snapshot"
       THEN /\ w' = [w EXCEPT !.pc = "idle"]
            /\ last' = [last EXCEPT !.op = "snapshot", !.exp_dir = w.dir,
                           !.experiment = w.experiment, !.checksum = FALSE,
                           !.ret = w.ret, !.before = w.before,
                           !.walked_before = w.walked_before]
       ELSE /\ w' = [w EXCEPT !.pc = "cleanup"]
            /\ last' = last
    /\ UNCHANGED <<tree, archive, clock, walked, qpc, q, rd, call>>

\* temp_path.rename raises: the error reaches the caller, the temp file stays
RenameFails ==
    /\ w.pc = "written"
    /\ w' = [w EXCEPT !.pc = "failed"]
    /\ UNCHANGED <<tree, catalog, archive, clock, walked, last, qpc, q, tmp, rd, call>>

\* consolidate: f.unlink() or shutil.move(f, archive_exp_dir / f.name) of one
\* old file; after the last one the directory is counted
RemoveOld(f) ==
    /\ w.pc = "cleanup"
    /\ f \in w.old
    /\ catalog' = [catalog EXCEPT ![w.dir] = @ \ {f}]
    /\ archive' = [archive EXCEPT ![w.dir] =
                      IF w.archive_dir THEN @ \cup {f} ELSE @]
    /\ w' = [w EXCEPT !.old = @ \ {f},
                !.stats = <<(IF w.old = {f} THEN @[1] + 1 ELSE @[1]),
                            (IF w.archive_dir THEN @[2] ELSE @[2] + 1),
                            (IF w.archive_dir THEN @[3] + 1 ELSE @[3])>>,
                !.pc = IF w.old = {f} THEN "next" ELSE "cleanup"]
    /\ UNCHANGED <<tree, clock, walked, last, qpc, q, tmp, rd, call>>

\* the process dies inside snapshot or consolidate; what is on disk stays
Crash ==
    /\ WriterBusy
    /\ w' = [w EXCEPT !.pc = "crashed"]
    /\ UNCHANGED <<tree, catalog, archive, clock, walked, last, qpc, q, tmp, rd, call>>

\* load_current_state: the rows of the base as the state to start from
BaseState(base_file) ==
    [p \in {x.path : x \in base_file.rows} |->
        LET x == CHOOSE y \in base_file.rows : y.path = p
        IN  Entry(x, x.on_disk)]

\* load_current_state: _find_latest_base lists the directory
LoadFindBase(d) ==
    /\ rd.pc = "idle"
    /\ LET base == _find_latest_base(catalog[d]) IN
       rd' = IF base = {}
             THEN [rd EXCEPT !.pc = "done", !.dir = d, !.tick = clock,
                      !.busy = WriterBusy]
             ELSE [rd EXCEPT !.pc = "base", !.dir = d, !.tick = clock,
                      !.busy = WriterBusy,
                      !.base = (CHOOSE f \in base : TRUE).name]
    /\ UNCHANGED <<tree, catalog, archive, clock, walked, last, qpc, q, w, tmp, call>>

\* load_current_state: pq.read_table(base_file); a file that is gone raises
LoadReadBase ==
    /\ rd.pc = "base"
    /\ rd' = IF \E f \in catalog[rd.dir] : f.name = rd.base
             THEN [rd EXCEPT !.pc = "read_base",
                      !.state = BaseState(CHOOSE f \in catalog[rd.dir] : f.name = rd.base)]
             ELSE [rd EXCEPT !.pc = "failed"]
    /\ UNCHANGED <<tree, catalog, archive, clock, walked, last, qpc, q, w, tmp, call>>

\* load_current_state: _find_deltas_after_base lists the directory
LoadFindDeltas ==
    /\ rd.pc = "read_base"
    /\ LET found == _find_deltas_after_base(catalog[rd.dir], [name |-> rd.base])
       IN  rd' = [rd EXCEPT !.pc = "deltas",
                     !.deltas = [i \in 1..Len(found) |-> found[i].name]]
    /\ UNCHANGED <<tree, catalog, archive, clock, walked, last, qpc, q, w, tmp, call>>

\* load_current_state: pq.read_table(delta_file) and its rows applied, for the
\* next delta of the list; after the last one, the return
LoadReadDelta ==
    /\ rd.pc = "deltas"
    /\ rd' = IF rd.deltas = <<>>
             THEN [rd EXCEPT !.pc = "done"]
             ELSE IF \E f \in catalog[rd.dir] : f.name = Head(rd.deltas)
                  THEN [rd EXCEPT !.deltas = Tail(@),
                           !.state = ApplyRows(@,
                              (CHOOSE f \in catalog[rd.dir] : f.name = Head(rd.deltas)).rows)]
                  ELSE [rd EXCEPT !.pc = "failed"]
    /\ UNCHANGED <<tree, catalog, archive, clock, walked, last, qpc, q, w, tmp, call>>

\* the tree changes between calls
EditTree ==
    /\ WriterFree
    /\ \/ \E p \in Paths, s \in Sizes, m \in Mtimes : CreateFile(p, s, m)
       \/ \E p \in Paths : DeleteFile(p)
       \/ \E p \in Paths, s \in Sizes, m \in Mtimes : WriteFile(p, s, m)

\* the writer step by step, as far as a call that completes goes
WriterStep ==
    \/ \E e \in Labels : BeginSnapshot(e)
    \/ \E a \in BOOLEAN : BeginConsolidate(a)
    \/ ConsolidateNextDir
    \/ WriteTableDone
    \/ RenameTemp
    \/ \E f \in w.old : RemoveOld(f)

\* one writer that may crash or meet an I/O error at any step
NextSteps ==
    \/ EditTree
    \/ WriterStep
    \/ \E left_behind \in BOOLEAN : WriteTableFails(left_behind)
    \/ RenameFails
    \/ Crash

SpecSteps == Init /\ [][NextSteps]_vars

\* one writer and, beside it, one reader inside load_current_state
NextReaders ==
    \/ EditTree
    \/ WriterStep
    \/ \E d \in ExpDirs : LoadFindBase(d)
    \/ LoadReadBase
    \/ LoadFindDeltas
    \/ LoadReadDelta

SpecReaders == Init /\ [][NextReaders]_vars

---------------------------------------------------------------------------
(* Browsing the view: find and ls_dirs *)

\* a text is the sequence of its characters
Ord == [c \in {"%", "/", "_", "a", "b", "c", "d", "f", "r", "x", "y"} |->
          CASE c = "%" -> 37 [] c = "/" -> 47 [] c = "_" -> 95 [] c = "a" -> 97
            [] c = "b" -> 98 [] c = "c" -> 99 [] c = "d" -> 100 [] c = "f" -> 102
            [] c = "r" -> 114 [] c = "x" -> 120 [] c = "y" -> 121]

\* the code points of a text
Codes(text) == [i \in 1..Len(text) |-> Ord[text[i]]]

\* ORDER BY on a text column
TextBefore(a, b) == TextLess(Codes(a), Codes(b))

\* SQL: text LIKE pattern ('%' any run of characters, '_' any one character,
\* no escape character)
RECURSIVE Like(_, _)
Like(text, pattern) ==
    IF pattern = <<>> THEN text = <<>>
    ELSE IF Head(pattern) = "%"
         THEN Like(text, Tail(pattern))
              \/ (text # <<>> /\ Like(Tail(text), pattern))
    ELSE IF text = <<>> THEN FALSE
    ELSE (Head(pattern) = "_" \/ Head(pattern) = Head(text))
         /\ Like(Tail(text), Tail(pattern))

\* _process_file: str(fpath.parent), the text before the last '/'
RECURSIVE ParentPath(_)
ParentPath(path) ==
    IF path = <<>> THEN <<>>
    ELSE IF path[Len(path)] = "/" THEN SubSeq(path, 1, Len(path) - 1)
    ELSE ParentPath(SubSeq(path, 1, Len(path) - 1))

\* a row of the view 'files' with its path as a text
BrowseRow(path, size, permissions, experiment, on_disk) ==
    [path |-> path, parent_path |-> ParentPath(path), size |-> size,
     permissions |-> permissions, experiment |-> experiment, on_disk |-> on_disk]

\* the sequences that hold each element of a set once
RECURSIVE Orderings(_)
Orderings(S) ==
    IF S = {} THEN {<<>>}
    ELSE UNION {{<<x>> \o rest : rest \in Orderings(S \ {x})} : x \in S}

\* (permissions & 61440) != 40960
NotSymlink(permissions) == ((permissions \div 4096) % 16) * 4096 # 40960

\* a size test that lets the bounds themselves through
SizeTest_inclusive(size, size_gt, size_lt) ==
    /\ \A g \in size_gt : size >= g
    /\ \A l \in size_lt : size <= l

\* find: size > size_gt, size < size_lt, each when given (an optional
\* argument is the empty set or the set of its value)
SizeTest(size, size_gt, size_lt) ==
    /\ \A g \in size_gt : size > g
    /\ \A l \in size_lt : size < l

\* find: the WHERE clause
FindWhere(row, a) ==
    /\ Like(row.path, a.pattern)
    /\ \A i \in 1..Len(a.exclude) : ~Like(row.path, a.exclude[i])
    /\ SizeTest(row.size, a.size_gt, a.size_lt)
    /\ \A e \in a.experiment : row.experiment = e
    /\ a.on_disk_only => row.on_disk = "true"
    /\ a.removed_only => row.on_disk = "false"
    /\ a.skip_symlinks => NotSymlink(row.permissions)

\* find: the rows that pass, ORDER BY path; rows of one path come in any order
find(files, a) ==
    LET hits == {row \in files : FindWhere(row, a)}
    IN  {out \in Orderings(hits) :
            \A i, j \in 1..Len(out) : i < j => ~TextBefore(out[j].path, out[i].path)}

\* path.rstrip("/")
RECURSIVE Rstrip(_)
Rstrip(path) ==
    IF path # <<>> /\ path[Len(path)] = "/"
    THEN Rstrip(SubSeq(path, 1, Len(path) - 1))
    ELSE path

\* POSITION('/' IN text): the index of the first '/', 0 without one
SlashPosition(text) ==
    IF \E i \in 1..Len(text) : text[i] = "/"
    THEN CHOOSE i \in 1..Len(text) :
            text[i] = "/" /\ \A j \in 1..(i - 1) : text[j] # "/"
    ELSE 0

\* ls_dirs: the CASE expression, the first component of parent_path from
\* character prefix_len + 1 on
Dirname(parent_path, prefix_len) ==
    LET rest == SubSeq(parent_path, prefix_len + 1, Len(parent_path))
        pos == SlashPosition(rest)
    IN  IF pos > 0 THEN SubSeq(rest, 1, pos - 1) ELSE rest

\* ls_dirs: the rows of the WHERE clause
LsDirsWhere(files, path, on_disk_only) ==
    LET stripped == Rstrip(path)
        prefix == stripped \o <<"/">>
    IN  {row \in files :
            /\ Like(row.parent_path, prefix \o <<"%">>)
            /\ row.parent_path # stripped
            /\ on_disk_only => row.on_disk = "true"}

\* ls_dirs: GROUP BY dirname HAVING dirname != '' ORDER BY dirname
ls_dirs(files, path, on_disk_only) ==
    LET prefix_len == Len(Rstrip(path)) + 1
        rows == LsDirsWhere(files, path, on_disk_only)
        names == {Dirname(row.parent_path, prefix_len) : row \in rows} \ {<<>>}
        group(n) == {row \in rows : Dirname(row.parent_path, prefix_len) = n}
        summary(n) == [dirname |-> n,
                       total_size |-> SumOver(group(n), [row \in group(n) |-> row.size]),
                       file_count |-> Cardinality(group(n))]
    IN  CHOOSE out \in Orderings({summary(n) : n \in names}) :
            \A i, j \in 1..Len(out) : i < j => TextBefore(out[i].dirname, out[j].dirname)

\* the paths of the rows a browse call is applied to
FindPaths ==
    {<<"/", "x", "_", "/", "f">>, <<"/", "x", "y", "/", "f">>,
     <<"/", "x", "y", "/", "c", "/", "f">>}

LsPaths ==
    {<<"/", "x", "_", "/", "f">>,
     <<"/", "x", "_", "/", "c", "/", "f">>,
     <<"/", "x", "_", "/", "c", "/", "d", "/", "f">>,
     <<"/", "x", "y", "/", "c", "/", "f">>}

\* st_mode of a regular file and of a symbolic link
BrowseModes == {33188, 41471}

FindRows ==
    {BrowseRow(p, s, m, e, o) : p \in FindPaths, s \in Sizes, m \in BrowseModes,
                                e \in {"e1", NullStr}, o \in {"true", "false"}}

LsRows ==
    {BrowseRow(p, s, 33188, "e1", o) : p \in LsPaths, s \in Sizes,
                                       o \in {"true", "false"}}

\* the sets of at most n elements of a set
RECURSIVE UpTo(_, _)
UpTo(S, n) ==
    IF n = 0 THEN {{}}
    ELSE LET smaller == UpTo(S, n - 1)
         IN  smaller \cup {T \cup {x} : T \in smaller, x \in S}

\* the arguments of find
FindArgs ==
    [pattern : {<<"%">>, <<"/", "x", "_", "/", "%">>},
     exclude : {<<>>, <<<<"%", "/", "c", "/", "%">>>>,
                <<<<"%", "/", "c", "/", "%">>, <<"%", "y", "/", "f">>>>},
     size_gt : {{}, {1}},
     size_lt : {{}, {MaxSize}},
     experiment : {{}, {"e1"}},
     on_disk_only : BOOLEAN, removed_only : BOOLEAN, skip_symlinks : BOOLEAN]

\* the arguments of ls_dirs
LsDirsArgs ==
    [path : {<<"/", "x", "_">>, <<"/", "x", "_", "/">>, <<"/", "x", "y">>,
             <<"/", "x", "_", "/", "c">>},
     on_disk_only : BOOLEAN]

\* a browse call about to run: a view and the arguments
InitBrowse ==
    /\ InitCatalog
    /\ \/ \E files \in UpTo(FindRows, MaxRows), a \in FindArgs :
            call = [pc |-> "called", op |-> "find", files |-> files, args |-> a,
                    out |-> <<>>]
       \/ \E files \in UpTo(LsRows, MaxRows + 1), a \in LsDirsArgs :
            call = [pc |-> "called", op |-> "ls_dirs", files |-> files, args |-> a,
                    out |-> <<>>]

\* ParquetCatalog.find
Find ==
    /\ call.pc = "called" /\ call.op = "find"
    /\ \E out \in find(call.files, call.args) :
           call' = [call EXCEPT !.pc = "returned", !.out = out]
    /\ UNCHANGED <<tree, catalog, archive, clock, walked, last, qpc, q, w, tmp, rd>>

\* ParquetCatalog.ls_dirs
LsDirs ==
    /\ call.pc = "called" /\ call.op = "ls_dirs"
    /\ call' = [call EXCEPT !.pc = "returned",
                   !.out = ls_dirs(call.files, call.args.path, call.args.on_disk_only)]
    /\ UNCHANGED <<tree, catalog, archive, clock, walked, last, qpc, q, w, tmp, rd>>

NextBrowse == Find \/ LsDirs

SpecBrowse == InitBrowse /\ [][NextBrowse]_vars

---------------------------------------------------------------------------
(* The walker and the scanner on a tree with directories and links *)

\* In this part a path is the tuple of its components below "/", and the tree
\* maps each path to its node: a regular file, a directory, a symbolic link
\* (with the path it points to) or a fifo.
WalkRoot == <<"r">>
FilePath == <<"r", "f">>
DirPath == <<"r", "d">>
InnerPath == <<"r", "d", "g">>
LinkPath == <<"r", "l">>
FifoPath == <<"r", "p">>
Gone == <<"gone">>

\* typed: the directory entry tells its type, or lstat on it succeeds; an
\* entry that is not typed makes entry.is_dir raise OSError
Reg(readable) == [type |-> "reg", target |-> <<>>, size |-> 1, mtime |-> 1,
                  readable |-> readable, typed |-> TRUE]
Dir(readable) == [type |-> "dir", target |-> <<>>, size |-> 1, mtime |-> 1,
                  readable |-> readable, typed |-> TRUE]
Lnk(target) == [type |-> "lnk", target |-> target, size |-> Len(target), mtime |-> 1,
                readable |-> TRUE, typed |-> TRUE]
Fifo == [type |-> "fifo", target |-> <<>>, size |-> 0, mtime |-> 1, readable |-> TRUE,
         typed |-> TRUE]
Untyped(node) == [node EXCEPT !.typed = FALSE]

NoEntries == [p \in {} |-> Fifo]

\* the trees a run starts from
Trees ==
    {(WalkRoot :> Dir(TRUE)) @@ (DirPath :> Dir(dr)) @@ (InnerPath :> Reg(TRUE))
        @@ f @@ l @@ p :
        dr \in BOOLEAN,
        f \in {NoEntries, FilePath :> Reg(TRUE), FilePath :> Reg(FALSE)},
        l \in {NoEntries, LinkPath :> Lnk(FilePath), LinkPath :> Lnk(DirPath),
               LinkPath :> Lnk(Gone)},
        p \in {NoEntries, FifoPath :> Fifo}}

\* stat.st_mode as lstat reports it
StMode(node) ==
    CASE node.type = "reg" -> IF node.readable THEN 33188 ELSE 32768
      [] node.type = "dir" -> IF node.readable THEN 16877 ELSE 16384
      [] node.type = "lnk" -> 41471
      [] OTHER -> 4516

\* the directory a path names once a link at its end is followed
RealDir(fs, dirpath) ==
    IF dirpath \in DOMAIN fs /\ fs[dirpath].type = "lnk" THEN fs[dirpath].target
    ELSE dirpath

\* os.lstat: no node (the call raises) or the node itself, also for a path
\* that goes through a link to a directory
Lstat(fs, p) ==
    IF p \in DOMAIN fs THEN {fs[p]}
    ELSE LET parent == SubSeq(p, 1, Len(p) - 1)
             real == RealDir(fs, parent) \o <<p[Len(p)]>>
         IN  IF Len(p) > 1 /\ parent \in DOMAIN fs /\ real \in DOMAIN fs
             THEN {fs[real]} ELSE {}

\* os.stat: the node a path leads to when links are followed
Stat(fs, p) ==
    LET here == Lstat(fs, p) IN
    IF here = {} THEN {}
    ELSE LET node == CHOOSE n \in here : TRUE
         IN  IF node.type = "lnk"
             THEN (IF node.target \in DOMAIN fs THEN {fs[node.target]} ELSE {})
             ELSE {node}

IsLink(fs, p) == \E n \in Lstat(fs, p) : n.type = "lnk"
\* entry.is_dir(follow_symlinks=False)
IsDirNoFollow(fs, p) == \E n \in Lstat(fs, p) : n.type = "dir"
\* entry.is_dir(), Path.is_file(): both follow links
IsDir(fs, p) == \E n \in Stat(fs, p) : n.type = "dir"
IsFile(fs, p) == \E n \in Stat(fs, p) : n.type = "reg"

\* the one order in which a directory lists its names
NameRank ==
    ("a" :> 1) @@ ("b" :> 2) @@ ("c" :> 3) @@ ("d" :> 4) @@ ("e" :> 5) @@ ("f" :> 6)
        @@ ("g" :> 7) @@ ("l" :> 8) @@ ("p" :> 9)

RECURSIVE ByName(_)
ByName(S) ==
    IF S = {} THEN <<>>
    ELSE LET e == CHOOSE x \in S :
                     \A y \in S : NameRank[x[Len(x)]] <= NameRank[y[Len(y)]]
         IN  <<e>> \o ByName(S \ {e})

\* os.scandir(dirpath): the entries' paths; nothing when the directory cannot
\* be read (OSError)
Listing(fs, dirpath) ==
    LET real == RealDir(fs, dirpath) IN
    IF ~(real \in DOMAIN fs /\ fs[real].type = "dir" /\ fs[real].readable)
    THEN <<>>
    ELSE ByName({dirpath \o <<c[Len(c)]>> :
                   c \in {x \in DOMAIN fs : /\ Len(x) = Len(real) + 1
                                            /\ SubSeq(x, 1, Len(real)) = real}})

\* the elements of a sequence
Range(seq) == {seq[i] : i \in 1..Len(seq)}

RECURSIVE Reverse(_)
Reverse(seq) == IF seq = <<>> THEN <<>> ELSE Reverse(Tail(seq)) \o <<Head(seq)>>

\* entry.is_dir raises OSError: lstat is needed and fails
IsDirRaises(fs, p) == \E n \in Lstat(fs, p) : ~n.typed

\* is_dir that follows a link to a directory
_scan_directory_following(fs, dirpath) ==
    LET entries == SelectSeq(Listing(fs, dirpath), LAMBDA e : ~IsDirRaises(fs, e))
    IN  [subdirs |-> SelectSeq(entries, LAMBDA e : IsDir(fs, e)),
         files |-> SelectSeq(entries, LAMBDA e : ~IsDir(fs, e))]

\* an entry whose is_dir raises goes to neither list
_scan_directory(fs, dirpath) ==
    LET entries == SelectSeq(Listing(fs, dirpath), LAMBDA e : ~IsDirRaises(fs, e))
    IN  [subdirs |-> SelectSeq(entries, LAMBDA e : IsDirNoFollow(fs, e)),
         files |-> SelectSeq(entries, LAMBDA e : ~IsDirNoFollow(fs, e))]

\* the file paths snapshot collects from os.walk(root_path): os.walk sorts an
\* entry under dirnames when entry.is_dir() holds (links followed), lists the
\* others under filenames, and descends the dirnames that are not links
RECURSIVE os_walk(_, _), os_walk_dirs(_, _)
os_walk(fs, top) ==
    LET entries == Listing(fs, top)
        is_dir(e) == IsDir(fs, e) /\ ~IsDirRaises(fs, e)
        dirnames == SelectSeq(entries, LAMBDA e : is_dir(e))
        filenames == SelectSeq(entries, LAMBDA e : ~is_dir(e))
    IN  filenames \o os_walk_dirs(fs, dirnames)

os_walk_dirs(fs, dirnames) ==
    IF dirnames = <<>> THEN <<>>
    ELSE (IF IsLink(fs, Head(dirnames)) THEN <<>> ELSE os_walk(fs, Head(dirnames)))
         \o os_walk_dirs(fs, Tail(dirnames))

\* the results of one round of scans, one after the other
RECURSIVE Extend(_, _, _)
Extend(fs, batch, field) ==
    IF batch = <<>> THEN <<>>
    ELSE _scan_directory(fs, Head(batch))[field] \o Extend(fs, Tail(batch), field)

\* _parallel_walk from a queue of pending directories: the paths in the order
\* they are yielded
RECURSIVE ParallelRounds(_, _, _)
ParallelRounds(fs, pending_dirs, workers) ==
    IF pending_dirs = <<>> THEN <<>>
    ELSE LET batch_size == IF Len(pending_dirs) < workers * 2
                           THEN Len(pending_dirs) ELSE workers * 2
             batch == SubSeq(pending_dirs, 1, batch_size)
             rest == SubSeq(pending_dirs, batch_size + 1, Len(pending_dirs))
         IN  Reverse(Extend(fs, batch, "files"))
             \o ParallelRounds(fs, rest \o Extend(fs, batch, "subdirs"), workers)

_parallel_walk(fs, root, workers) == ParallelRounds(fs, <<root>>, workers)

\* snapshot's file_args: the paths of the walk, by mode
FileArgs(fs, workers) ==
    IF workers > 1 THEN _parallel_walk(fs, WalkRoot, workers) ELSE os_walk(fs, WalkRoot)

\* _process_file on the tree fs: None (the empty set) or one record
ScanFile(fs, fpath, compute_checksum, experiment, indexed_at) ==
    LET stat == {n \in Lstat(fs, fpath) : n.typed} IN
    IF stat = {} THEN {}
    ELSE LET st == CHOOSE n \in stat : TRUE
             hashed == compute_checksum /\ IsFile(fs, fpath)
             content == CHOOSE n \in Stat(fs, fpath) : TRUE
         IN  IF hashed /\ ~content.readable
             THEN {}
             ELSE {[path |-> fpath,
                    size |-> st.size,
                    mtime |-> st.mtime,
                    permissions |-> StMode(st),
                    checksum |-> IF hashed THEN Sha256(content) ELSE NoChecksum,
                    experiment |-> experiment,
                    indexed_at |-> indexed_at]}

\* a batch that is dropped whole when one of its files is skipped
_process_batch_all_or_nothing(fs, batch, compute_checksum, experiment, indexed_at) ==
    LET results == [i \in 1..Len(batch) |->
                      ScanFile(fs, batch[i], compute_checksum, experiment, indexed_at)]
    IN  IF \E i \in 1..Len(batch) : results[i] = {} THEN {}
        ELSE UNION Range(results)

\* the records of a batch: the results that are not None (the same list for
\* every number of workers)
_process_batch(fs, batch, compute_checksum, experiment, indexed_at) ==
    LET results == [i \in 1..Len(batch) |->
                      ScanFile(fs, batch[i], compute_checksum, experiment, indexed_at)]
    IN  UNION Range(results)

\* current_files[rec["path"]] = rec
CurrentFiles(records) ==
    [p \in {r.path : r \in records} |-> CHOOSE r \in records : r.path = p]

\* snapshot once current_files is known: a base the first time, a delta after
WriteSnapshot(files, timestamp, current_files) ==
    LET previous_state == load_current_state(files)
    IN  IF DOMAIN previous_state = {}
        THEN _write_base(files, timestamp, current_files)
        ELSE _write_delta(files, timestamp, current_files, previous_state)

\* what one snapshot of the tree does to an experiment directory: walk_fs is
\* the tree during the walk, scan_fs the tree during the scan
SnapshotWith(files, timestamp, walk_fs, scan_fs, workers, compute_checksum) ==
    WriteSnapshot(files, timestamp,
        CurrentFiles(_process_batch(scan_fs, FileArgs(walk_fs, workers),
                                    compute_checksum, NoLabel, timestamp)))

ScanDir == _get_exp_dir(Root, NoLabel)

NoScan ==
    [pc |-> "idle", workers |-> 1, compute_checksum |-> FALSE, timestamp |-> <<0, 0>>,
     file_args |-> <<>>, records |-> {}, walk_fs |-> NoEntries, scan_fs |-> NoEntries,
     before |-> {}, ret |-> <<0, 0, 0>>, calls |-> 0, edits |-> 0]

InitScan ==
    /\ tree \in Trees
    /\ catalog = [d \in ExpDirs |-> {}]
    /\ archive = [d \in ExpDirs |-> {}]
    /\ clock = FirstTick
    /\ walked = [d \in ExpDirs |-> {}]
    /\ last = NoResult
    /\ qpc = "idle"
    /\ q = [all_exps |-> {}, exps_with_deltas |-> {}, out |-> QueryError,
            start |-> [d \in ExpDirs |-> {}]]
    /\ w = NoWriter
    /\ tmp = [d \in ExpDirs |-> {}]
    /\ rd = NoReader
    /\ call = NoScan

\* snapshot, lines 265-283: the timestamp and the walk
ScanWalk(workers, compute_checksum) ==
    /\ call.pc \in {"idle", "written"}
    /\ call.calls < MaxScans
    /\ call' = [call EXCEPT !.pc = "walked", !.workers = workers,
                   !.compute_checksum = compute_checksum,
                   !.timestamp = Strftime(clock),
                   !.file_args = FileArgs(tree, workers),
                   !.walk_fs = tree, !.before = catalog[ScanDir]]
    /\ clock' = clock + 1
    /\ UNCHANGED <<tree, catalog, archive, walked, last, qpc, q, w, tmp, rd>>

\* snapshot, lines 285-290: the batches are scanned
ScanProcess ==
    /\ call.pc = "walked"
    /\ call' = [call EXCEPT !.pc = "scanned", !.scan_fs = tree,
                   !.records = _process_batch(tree, call.file_args,
                                   call.compute_checksum, NoLabel, call.timestamp)]
    /\ UNCHANGED <<tree, catalog, archive, clock, walked, last, qpc, q, w, tmp, rd>>

\* snapshot, lines 292-300: the base or the delta is written
ScanWrite ==
    /\ call.pc = "scanned"
    /\ LET out == WriteSnapshot(catalog[ScanDir], call.timestamp,
                                CurrentFiles(call.records))
       IN  /\ catalog' = [catalog EXCEPT ![ScanDir] = out.files]
           /\ call' = [call EXCEPT !.pc = "written", !.ret = out.ret,
                          !.calls = call.calls + 1]
    /\ UNCHANGED <<tree, archive, clock, walked, last, qpc, q, w, tmp, rd>>

\* a file, a link or a fifo is removed (at any time, also between the walk
\* and the scan)
Unlink(p) ==
    /\ call.edits < MaxEdits
    /\ p \in DOMAIN tree /\ tree[p].type # "dir"
    /\ tree' = [x \in DOMAIN tree \ {p} |-> tree[x]]
    /\ call' = [call EXCEPT !.edits = call.edits + 1]
    /\ UNCHANGED <<catalog, archive, clock, walked, last, qpc, q, w, tmp, rd>>

\* chmod a-r on a regular file or a directory
Protect(p) ==
    /\ call.edits < MaxEdits
    /\ p \in DOMAIN tree /\ tree[p].type \in {"reg", "dir"} /\ tree[p].readable
    /\ p # WalkRoot
    /\ tree' = [tree EXCEPT ![p].readable = FALSE]
    /\ call' = [call EXCEPT !.edits = call.edits + 1]
    /\ UNCHANGED <<catalog, archive, clock, walked, last, qpc, q, w, tmp, rd>>

NextScan ==
    \/ \E workers \in Workers, c \in BOOLEAN : ScanWalk(workers, c)
    \/ ScanProcess
    \/ ScanWrite
    \/ \E p \in DOMAIN tree : Unlink(p)
    \/ \E p \in DOMAIN tree : Protect(p)

SpecScan == InitScan /\ [][NextScan]_vars

---------------------------------------------------------------------------
(* The command line: parse_size *)

\* In this part a text is the sequence of its characters.
Digits == {"0", "1", "5"}
DigitOf == ("0" :> 0) @@ ("1" :> 1) @@ ("5" :> 5)

\* str.upper on the characters that occur
UpperOf ==
    ("b" :> "B") @@ ("k" :> "K") @@ ("m" :> "M")
        @@ [c \in Digits \cup {".", " ", "B", "K", "M", "G", "T"} |-> c]

Upper(text) == [i \in 1..Len(text) |-> UpperOf[text[i]]]

\* str.strip
RECURSIVE Strip(_)
Strip(text) ==
    IF text = <<>> THEN text
    ELSE IF Head(text) = " " THEN Strip(Tail(text))
    ELSE IF text[Len(text)] = " " THEN Strip(SubSeq(text, 1, Len(text) - 1))
    ELSE text

\* str.endswith
EndsWith(text, suffix) ==
    /\ Len(text) >= Len(suffix)
    /\ SubSeq(text, Len(text) - Len(suffix) + 1, Len(text)) = suffix

\* the number a text of digits writes
RECURSIVE DigitsValue(_)
DigitsValue(text) ==
    IF text = <<>> THEN 0
    ELSE 10 * DigitsValue(SubSeq(text, 1, Len(text) - 1)) + DigitOf[text[Len(text)]]

RECURSIVE Pow(_, _)
Pow(b, n) == IF n = 0 THEN 1 ELSE b * Pow(b, n - 1)

ValueError == [ok |-> FALSE, mantissa |-> 0, places |-> 0]

\* float(text): the text is stripped; digits with at most one point and at
\* least one digit give the number mantissa / 10^places, anything else raises
\* ValueError
ParseFloat(text) ==
    LET t == Strip(text)
        points == {i \in 1..Len(t) : t[i] = "."}
        digits == SelectSeq(t, LAMBDA c : c \in Digits)
    IN  IF \/ digits = <<>>
           \/ Cardinality(points) > 1
           \/ \E i \in 1..Len(t) : t[i] \notin Digits \cup {"."}
        THEN ValueError
        ELSE [ok |-> TRUE, mantissa |-> DigitsValue(digits),
              places |-> IF points = {} THEN 0
                         ELSE Len(t) - (CHOOSE i \in points : TRUE)]

\* int(text): the text is stripped; digits only, anything else raises ValueError
ParseInt(text) ==
    LET t == Strip(text) IN
    IF t = <<>> \/ \E i \in 1..Len(t) : t[i] \notin Digits
    THEN [ok |-> FALSE, value |-> 0]
    ELSE [ok |-> TRUE, value |-> DigitsValue(t)]

\* units, in the order the dictionary is iterated; a multiplier 1024**n is
\* kept as the exponent of 2
units ==
    << [unit |-> <<"B">>, exponent |-> 0],
       [unit |-> <<"K", "B">>, exponent |-> 10],
       [unit |-> <<"M", "B">>, exponent |-> 20],
       [unit |-> <<"G", "B">>, exponent |-> 30],
       [unit |-> <<"T", "B">>, exponent |-> 40] >>

\* int(number * multiplier)
Scaled(number, exponent) ==
    (number.mantissa * Pow(2, exponent)) \div Pow(10, number.places)

\* the loop over units.items(): the first unit the text ends with decides
RECURSIVE ParseWithUnits(_, _)
ParseWithUnits(size_str, rest) ==
    IF rest = <<>> THEN ParseInt(size_str)
    ELSE IF EndsWith(size_str, Head(rest).unit)
         THEN LET number == ParseFloat(SubSeq(size_str, 1,
                                         Len(size_str) - Len(Head(rest).unit)))
              IN  IF number.ok
                  THEN [ok |-> TRUE, value |-> Scaled(number, Head(rest).exponent)]
                  ELSE [ok |-> FALSE, value |-> 0]
         ELSE ParseWithUnits(size_str, Tail(rest))

\* the result: ok with the value in bytes, or not ok for a ValueError
parse_size(size_str) == ParseWithUnits(Upper(Strip(size_str)), units)

\* the arguments a call is made with: a number, a unit in some case, blanks
SizeNumbers ==
    {<<"1">>, <<"5">>, <<"1", "5">>, <<"5", "0", "0">>, <<"1", ".", "5">>,
     <<".", "5">>, <<"1", ".">>, <<>>, <<"1", ".", "5", ".">>}

SizeUnits ==
    {<<>>, <<"B">>, <<"K", "B">>, <<"M", "B">>, <<"G", "B">>, <<"T", "B">>,
     <<"b">>, <<"k", "b">>, <<"K", "b">>, <<"m", "B">>, <<"K">>}

Blanks == {<<>>, <<" ">>}

InitCli ==
    /\ InitCatalog
    /\ \E number \in SizeNumbers, unit \in SizeUnits, b1 \in Blanks, b2 \in Blanks :
          call = [pc |-> "called", op |-> "parse_size", number |-> number,
                  unit |-> unit, size_str |-> b1 \o number \o unit \o b2,
                  out |-> [ok |-> FALSE, value |-> 0]]

\* cli.parse_size
ParseSize ==
    /\ call.pc = "called" /\ call.op = "parse_size"
    /\ call' = [call EXCEPT !.pc = "returned", !.out = parse_size(call.size_str)]
    /\ UNCHANGED <<tree, catalog, archive, clock, walked, last, qpc, q, w, tmp, rd>>

NextCli == ParseSize

SpecCli == InitCli /\ [][NextCli]_vars

---------------------------------------------------------------------------
(* The SQLite catalog (catalog.py, schema.py) *)

PurgeDates == {"2024-01-01", "2024-06-01"}

\* the rowid SQLite gives a row inserted without an id: one more than the
\* largest in the table
NextId(table) ==
    IF table = {} THEN 1
    ELSE 1 + (CHOOSE i \in {r.id : r \in table} : \A r \in table : r.id <= i)

\* INSERT with no conflict clause on a table without the UNIQUE constraint
InsertOrReplace_keeping(table, row) ==
    table \cup {[row EXCEPT !.id = NextId(table)]}

\* INSERT OR REPLACE INTO files under UNIQUE(path, purge_date): the row in
\* conflict is deleted, the new row gets a new id
InsertOrReplace(table, row) ==
    LET kept == {r \in table : ~(r.path = row.path /\ r.purge_date = row.purge_date)}
    IN  kept \cup {[row EXCEPT !.id = NextId(table)]}

\* the paths Catalog.snapshot records: lstat succeeded and, with
\* compute_checksum, the file could be read
LegacyScanned(compute_checksum) ==
    {p \in DOMAIN tree : ~(compute_checksum /\ ~Readable(tree[p]))}

RECURSIVE InsertAll(_, _, _, _, _)
InsertAll(table, paths, experiment, compute_checksum, purge_date) ==
    IF paths = {} THEN table
    ELSE LET p == CHOOSE x \in paths : TRUE
             row == [id |-> 0, path |-> p, size |-> tree[p].size,
                     mtime |-> tree[p].mtime, permissions |-> tree[p].permissions,
                     checksum |-> IF compute_checksum THEN Sha256(tree[p])
                                  ELSE NoChecksum,
                     experiment |-> experiment, purge_date |-> purge_date]
         IN  InsertAll(InsertOrReplace(table, row), paths \ {p}, experiment,
                       compute_checksum, purge_date)

\* self.conn.commit(): the connection's view becomes the content of the file
Commit(view, disk) == view

\* the table as the connection sees it: the file's content when no connection
\* is open
View == IF call.open THEN call.view ELSE call.disk

NoDb ==
    [pc |-> "legacy", op |-> "none", open |-> FALSE, view |-> {}, disk |-> {},
     out |-> 0, scanned |-> {}, inserts |-> 0, calls |-> 0, reopened |-> FALSE]

InitLegacy == InitCatalog /\ call = NoDb

\* Catalog.snapshot(Root, experiment, compute_checksum, purge_date)
LegacySnapshot(experiment, compute_checksum, purge_date) ==
    /\ call.calls < MaxOps - 1
    /\ LET paths == LegacyScanned(compute_checksum)
           view == InsertAll(View, paths, experiment, compute_checksum, purge_date)
       IN  call' = [call EXCEPT !.op = "snapshot", !.open = TRUE,
                       !.view = Commit(view, call.disk),
                       !.disk = Commit(view, call.disk),
                       !.out = Cardinality(paths),
                       !.scanned = call.scanned \cup {<<p, purge_date>> : p \in paths},
                       !.inserts = call.inserts + Cardinality(paths),
                       !.calls = call.calls + 1, !.reopened = FALSE]
    /\ UNCHANGED <<tree, catalog, archive, clock, walked, last, qpc, q, w, tmp, rd>>

\* Catalog.close(): what was not committed is gone
LegacyClose ==
    /\ call.open
    /\ call' = [call EXCEPT !.op = "close", !.open = FALSE, !.view = {},
                   !.reopened = FALSE]
    /\ UNCHANGED <<tree, catalog, archive, clock, walked, last, qpc, q, w, tmp, rd>>

\* Catalog.count(): SELECT COUNT(*) FROM files, on a connection opened if needed
LegacyCount ==
    /\ call.op # "count"
    /\ call' = [call EXCEPT !.op = "count", !.open = TRUE, !.view = View,
                   !.out = Cardinality(View), !.reopened = ~call.open]
    /\ UNCHANGED <<tree, catalog, archive, clock, walked, last, qpc, q, w, tmp, rd>>

NextLegacy ==
    \/ \E p \in Paths, s \in Sizes, m \in Mtimes : CreateFile(p, s, m)
    \/ \E p \in Paths : DeleteFile(p)
    \/ \E p \in Paths, s \in Sizes, m \in Mtimes : WriteFile(p, s, m)
    \/ \E p \in Paths, mode \in Modes : Chmod(p, mode)
    \/ \E e \in Labels, c \in BOOLEAN, d \in PurgeDates : LegacySnapshot(e, c, d)
    \/ LegacyClose
    \/ LegacyCount

SpecLegacy == InitLegacy /\ [][NextLegacy]_vars

---------------------------------------------------------------------------
(* One delta row applied to a reconstructed state (load_current_state's
   inner loop), on states and rows drawn from small sets *)

\* the rows a delta file can hold for the paths of the tree
DeltaRecords ==
    {Row([path |-> p, size |-> s, mtime |-> 1, permissions |-> 33188,
          checksum |-> NoChecksum, experiment |-> "e1",
          indexed_at |-> Strftime(FirstTick + 1)], NullStr, st) :
        p \in Paths, s \in 1..MaxSize, st \in {"added", "modified", "removed"}}

\* the entries a reconstructed state can hold for a path
StateEntries(p) ==
    {Entry(Row([path |-> p, size |-> s, mtime |-> 1, permissions |-> 33188,
                checksum |-> NoChecksum, experiment |-> "e1",
                indexed_at |-> Strftime(FirstTick)], flag, NullStr), flag) :
        s \in 1..MaxSize, flag \in {"true", "false"}}

\* the states: every map from some of the paths to an entry of each
States ==
    UNION {{st \in [ps -> UNION {StateEntries(p) : p \in ps}] :
              \A p \in ps : st[p].path = p} : ps \in SUBSET Paths}

NoApply == [pc |-> "none", state |-> EmptyState, record |-> NullStr,
            out |-> EmptyState]

InitApply ==
    /\ InitCatalog
    /\ \E state \in States, record \in DeltaRecords :
          call = [NoApply EXCEPT !.pc = "read", !.state = state,
                                 !.record = record]

\* one turn of the loop over the rows of a delta
ApplyDeltaRow ==
    /\ call.pc = "read"
    /\ call' = [call EXCEPT !.pc = "applied",
                            !.out = ApplyRow(call.state, call.record)]
    /\ UNCHANGED <<tree, catalog, archive, clock, walked, last, qpc, q, w,
                   tmp, rd>>

NextApply == ApplyDeltaRow

SpecApply == InitApply /\ [][NextApply]_vars

---------------------------------------------------------------------------
(* Reconstruction from directory listings: glob returns the files of a
   directory in an order the file system chooses *)

\* the orders in which a directory can list a set of files
RECURSIVE Listings(_)
Listings(S) ==
    IF S = {} THEN {<<>>}
    ELSE UNION {{<<f>> \o l : l \in Listings(S \ {f})} : f \in S}

\* exp_dir.glob("base_*.parquet"), exp_dir.glob("delta_*.parquet")
Glob(files, kind) == Listings({f \in files : f.name.kind = kind})

\* sorted(...) that leaves the listing as it came
Sorted_as_listed(listing) == listing

\* sorted(...) of a listing: by name, whatever the order of the listing
RECURSIVE Sorted(_)
Sorted(listing) ==
    IF listing = <<>> THEN <<>>
    ELSE LET i == CHOOSE k \in 1..Len(listing) :
                     \A j \in 1..Len(listing) :
                        j = k \/ NameLess(listing[k].name, listing[j].name)
             rest == [j \in 1..(Len(listing) - 1) |->
                         IF j < i THEN listing[j] ELSE listing[j + 1]]
         IN  <<listing[i]>> \o Sorted(rest)

\* load_current_state on one listing of the bases and one of the deltas
LoadListed(base_glob, delta_glob) ==
    LET base_files == Sorted(base_glob) IN
    IF base_files = <<>> THEN EmptyState
    ELSE LET base_file == base_files[Len(base_files)]
             paired == [base_file.name EXCEPT !.kind = "delta"]
             deltas == SelectSeq(Sorted(delta_glob),
                                 LAMBDA d : NameLess(paired, d.name))
             state == [p \in {r.path : r \in base_file.rows} |->
                          LET r == CHOOSE x \in base_file.rows : x.path = p
                          IN  Entry(r, r.on_disk)]
         IN  ApplyDeltas(state, deltas)

\* the maps the runs of load_current_state on a directory can return
Runs(files) ==
    {LoadListed(b, d) : b \in Glob(files, "base"), d \in Glob(files, "delta")}

---------------------------------------------------------------------------
(* One snapshot with workers > 1, thread by thread: the coordinating thread
   runs snapshot and the generator _parallel_walk, the threads of a pool run
   _scan_directory or _process_file *)

\* snapshot's batch_size
ScanBatch == 2

WalkWorkers == {2, 3}

DeepPath == <<"r", "a", "g">>
DeepFile == <<"r", "a", "g", "f">>

\* the trees of a walk: five directories under the root, one of them readable
\* or not, a link to a directory or none, and under r/a nothing, a file, a
\* directory with a file, or one of these as an entry whose type cannot be read
WalkTrees ==
    {(WalkRoot :> Dir(TRUE)) @@ (<<"r", "a">> :> Dir(TRUE))
        @@ (<<"r", "b">> :> Dir(TRUE)) @@ (<<"r", "c">> :> Dir(TRUE))
        @@ (DirPath :> Dir(dr)) @@ (<<"r", "e">> :> Dir(TRUE))
        @@ (InnerPath :> Reg(TRUE)) @@ (FilePath :> Reg(fr)) @@ l @@ x :
        dr \in BOOLEAN, fr \in BOOLEAN,
        l \in {NoEntries, LinkPath :> Lnk(DirPath)},
        x \in {NoEntries,
               DeepPath :> Reg(TRUE),
               DeepPath :> Untyped(Reg(TRUE)),
               (DeepPath :> Dir(TRUE)) @@ (DeepFile :> Reg(TRUE)),
               (DeepPath :> Untyped(Dir(TRUE))) @@ (DeepFile :> Reg(TRUE))}}

\* every pending directory goes into the round
batch_size_unbounded(pending_dirs, workers) == Len(pending_dirs)

\* batch_size = min(len(pending_dirs), workers * 2)
batch_size(pending_dirs, workers) ==
    IF Len(pending_dirs) < workers * 2 THEN Len(pending_dirs) ELSE workers * 2

\* executor.submit, executor.map: the tasks of a pool, none of them started
Submitted(args) == [i \in 1..Len(args) |-> [arg |-> args[i], done |-> FALSE]]

\* a pool of max_workers threads takes its tasks in the order of submission:
\* task i runs once fewer than max_workers tasks before it are unfinished
CanRun(tasks, i, max_workers) ==
    /\ i \in 1..Len(tasks)
    /\ ~tasks[i].done
    /\ Cardinality({j \in 1..(i - 1) : ~tasks[j].done}) < max_workers

AllDone(tasks) == \A i \in 1..Len(tasks) : tasks[i].done

NoWalk ==
    [pc |-> "idle", workers |-> 2, compute_checksum |-> FALSE,
     timestamp |-> <<0, 0>>,
     walk_pool |-> FALSE, pending_dirs |-> <<>>, pending_files |-> <<>>,
     futures |-> <<>>, results |-> <<>>, collected |-> 0,
     file_args |-> <<>>,
     scan_pool |-> FALSE, tasks |-> <<>>, records |-> <<>>, next |-> 1,
     current_files |-> <<>>, previous_state |-> EmptyState,
     ret |-> <<0, 0, 0>>, scans |-> <<>>]

InitWalk ==
    /\ tree \in WalkTrees
    /\ catalog = [d \in ExpDirs |-> {}]
    /\ archive = [d \in ExpDirs |-> {}]
    /\ clock = FirstTick
    /\ walked = [d \in ExpDirs |-> {}]
    /\ last = NoResult
    /\ qpc = "idle"
    /\ q = [all_exps |-> {}, exps_with_deltas |-> {}, out |-> QueryError,
            start |-> [d \in ExpDirs |-> {}]]
    /\ w = NoWriter
    /\ tmp = [d \in ExpDirs |-> {}]
    /\ rd = NoReader
    /\ call = NoWalk

WalkFrame == UNCHANGED <<tree, catalog, archive, walked, last, qpc, q, w, tmp, rd>>

\* snapshot, 265-275, and _parallel_walk, 86-90: the timestamp is read, the
\* generator starts from the root and opens its pool
WalkOpen(workers, compute_checksum) ==
    /\ call.pc = "idle"
    /\ call' = [call EXCEPT !.pc = "submit", !.workers = workers,
                   !.compute_checksum = compute_checksum,
                   !.timestamp = Strftime(clock),
                   !.walk_pool = TRUE, !.pending_dirs = <<WalkRoot>>]
    /\ clock' = clock + 1
    /\ WalkFrame

\* _parallel_walk, 91-98: a round of directory scans is submitted
Submit ==
    /\ call.pc = "submit"
    /\ call.pending_dirs # <<>> \/ call.pending_files # <<>>
    /\ LET n == batch_size(call.pending_dirs, call.workers)
       IN  call' = [call EXCEPT
                      !.pc = "collect",
                      !.futures = Submitted(SubSeq(call.pending_dirs, 1, n)),
                      !.results = [i \in 1..n |-> [subdirs |-> <<>>, files |-> <<>>]],
                      !.collected = 0,
                      !.pending_dirs =
                          SubSeq(call.pending_dirs, n + 1, Len(call.pending_dirs))]
    /\ UNCHANGED clock
    /\ WalkFrame

\* _scan_directory on a thread of the walk pool
DirScan(i) ==
    /\ call.walk_pool
    /\ CanRun(call.futures, i, call.workers)
    /\ call' = [call EXCEPT
                  !.futures[i].done = TRUE,
                  !.results[i] = _scan_directory(tree, call.futures[i].arg),
                  !.scans = Append(call.scans, call.futures[i].arg)]
    /\ UNCHANGED clock
    /\ WalkFrame

\* _parallel_walk, 101-104: future.result() of the next future of the round,
\* once it is there; after the last one the files are yielded or, with no
\* file pending, the loop turns
Collect ==
    /\ call.pc = "collect"
    /\ call.collected < Len(call.futures)
    /\ LET k == call.collected + 1
           pending_files == call.pending_files \o call.results[k].files
       IN  /\ call.futures[k].done
           /\ call' = [call EXCEPT
                         !.collected = k,
                         !.pending_dirs = call.pending_dirs \o call.results[k].subdirs,
                         !.pending_files = pending_files,
                         !.pc = IF k < Len(call.futures) THEN "collect"
                                ELSE IF pending_files # <<>> THEN "yield"
                                ELSE "submit"]
    /\ UNCHANGED clock
    /\ WalkFrame

\* _parallel_walk, 107-108, and snapshot, 275-276: the last pending file is
\* yielded and snapshot appends it to file_args
Yield ==
    /\ call.pc = "yield"
    /\ call.pending_files # <<>>
    /\ LET n == Len(call.pending_files)
       IN  call' = [call EXCEPT
                      !.pending_files = SubSeq(call.pending_files, 1, n - 1),
                      !.file_args = Append(call.file_args, call.pending_files[n]),
                      !.pc = IF n = 1 THEN "submit" ELSE "yield"]
    /\ UNCHANGED clock
    /\ WalkFrame

\* _parallel_walk, 90-91: nothing is pending, the with block shuts the pool
\* down and the generator ends; snapshot goes on to its batches
WalkClose ==
    /\ call.pc = "submit"
    /\ call.pending_dirs = <<>> /\ call.pending_files = <<>>
    /\ call' = [call EXCEPT !.pc = "batch", !.walk_pool = FALSE]
    /\ UNCHANGED clock
    /\ WalkFrame

\* a scan pool that opens as soon as a batch of files has been yielded
BatchOpen_streaming ==
    /\ call.pc \in {"batch", "submit"}
    /\ call.next + ScanBatch - 1 <= Len(call.file_args) \/ call.pc = "batch"
    /\ call.next <= Len(call.file_args)
    /\ LET to == IF call.next + ScanBatch - 1 < Len(call.file_args)
                 THEN call.next + ScanBatch - 1 ELSE Len(call.file_args)
       IN  call' = [call EXCEPT
                      !.pc = "map",
                      !.scan_pool = TRUE,
                      !.tasks = Submitted(SubSeq(call.file_args, call.next, to)),
                      !.records = [i \in 1..(to - call.next + 1) |-> {}],
                      !.next = to + 1]
    /\ UNCHANGED clock
    /\ WalkFrame

\* snapshot, 286-287, and _process_batch, 390-393: the next batch of file_args
\* is handed to a new pool
BatchOpen ==
    /\ call.pc = "batch"
    /\ call.next <= Len(call.file_args)
    /\ LET to == IF call.next + ScanBatch - 1 < Len(call.file_args)
                 THEN call.next + ScanBatch - 1 ELSE Len(call.file_args)
       IN  call' = [call EXCEPT
                      !.pc = "map",
                      !.scan_pool = TRUE,
                      !.tasks = Submitted(SubSeq(call.file_args, call.next, to)),
                      !.records = [i \in 1..(to - call.next + 1) |-> {}],
                      !.next = to + 1]
    /\ UNCHANGED clock
    /\ WalkFrame

\* _process_file on a thread (or a process) of the scan pool
FileScan(i) ==
    /\ call.scan_pool
    /\ CanRun(call.tasks, i, call.workers)
    /\ call' = [call EXCEPT
                  !.tasks[i].done = TRUE,
                  !.records[i] = ScanFile(tree, call.tasks[i].arg,
                                     call.compute_checksum, NoLabel, call.timestamp)]
    /\ UNCHANGED clock
    /\ WalkFrame

\* _process_batch, 393-398, and snapshot, 288-290: the results are all there,
\* the pool is shut down, the records that are not None go to current_files
BatchClose ==
    /\ call.pc = "map"
    /\ AllDone(call.tasks)
    /\ call' = [call EXCEPT
                  !.pc = "batch",
                  !.scan_pool = FALSE,
                  !.tasks = <<>>,
                  !.records = <<>>,
                  !.current_files =
                      call.current_files
                          \o SelectSeq([i \in 1..Len(call.records) |-> call.records[i]],
                                       LAMBDA r : r # {})]
    /\ UNCHANGED clock
    /\ WalkFrame

\* snapshot, 292-293: every batch is done, the previous state is reconstructed
LoadPrevious ==
    /\ call.pc = "batch"
    /\ call.next > Len(call.file_args)
    /\ call' = [call EXCEPT !.pc = "write",
                   !.previous_state = load_current_state(catalog[ScanDir])]
    /\ UNCHANGED clock
    /\ WalkFrame

\* snapshot, 295-300: the base or the delta is written
WriteFiles ==
    /\ call.pc = "write"
    /\ LET records == UNION Range(call.current_files)
           out == IF DOMAIN call.previous_state = {}
                  THEN _write_base(catalog[ScanDir], call.timestamp,
                                   CurrentFiles(records))
                  ELSE _write_delta(catalog[ScanDir], call.timestamp,
                                    CurrentFiles(records), call.previous_state)
       IN  /\ catalog' = [catalog EXCEPT ![ScanDir] = out.files]
           /\ call' = [call EXCEPT !.pc = "done", !.ret = out.ret]
    /\ UNCHANGED <<tree, archive, clock, walked, last, qpc, q, w, tmp, rd>>

NextWalk ==
    \/ \E workers \in WalkWorkers, c \in BOOLEAN : WalkOpen(workers, c)
    \/ Submit
    \/ \E i \in 1..Len(call.futures) : DirScan(i)
    \/ Collect
    \/ Yield
    \/ WalkClose
    \/ BatchOpen
    \/ \E i \in 1..Len(call.tasks) : FileScan(i)
    \/ BatchClose
    \/ LoadPrevious
    \/ WriteFiles

SpecWalk == InitWalk /\ [][NextWalk]_vars

\* the walk alone, up to the end of the generator
NextWalking ==
    \/ \E workers \in WalkWorkers : WalkOpen(workers, FALSE)
    \/ Submit
    \/ \E i \in 1..Len(call.futures) : DirScan(i)
    \/ Collect
    \/ Yield
    \/ WalkClose

\* every thread that can take a step takes one: the pool's threads run their
\* tasks and the coordinating thread is not held for ever
InitWalking == InitWalk /\ tree[FilePath].readable

SpecWalkFair == InitWalking /\ [][NextWalking]_vars /\ WF_vars(NextWalking)

---------------------------------------------------------------------------
(* Calls after a call that failed: the caller catches the error, or a new
   process opens the catalog, and goes on with snapshot and consolidate *)

\* the next call starts from what is on disk
Recover ==
    /\ w.pc \in {"failed", "crashed"}
    /\ w' = NoWriter
    /\ UNCHANGED <<tree, catalog, archive, clock, walked, last, qpc, q, tmp, rd, call>>

NextRecover ==
    \/ EditTree
    \/ WriterStep
    \/ WriteTableFails(TRUE)
    \/ RenameFails
    \/ Crash
    \/ Recover

SpecRecover == Init /\ [][NextRecover]_vars

---------------------------------------------------------------------------
(* C1 *)

\* C1 as stated: after any snapshot of an experiment, the reconstructed state
\* equals the state of a single fresh snapshot of the walked tree (compared on
\* every column but indexed_at), and every other tracked path is on_disk=false.
C1_FreshEquivalence ==
    IsSnapshot =>
        /\ \A p \in DOMAIN FreshState :
              p \in DOMAIN After /\ SameButIndexedAt(After[p], FreshState[p])
        /\ \A p \in DOMAIN After \ DOMAIN FreshState : After[p].on_disk = "false"

\* C1 amended: after any snapshot of an experiment, the reconstructed state holds
\* every path the walk recorded, on_disk=true, with the size and mtime of the
\* tree (and the experiment label), and every other tracked path on_disk=false;
\* permissions, checksum and indexed_at may be those of an earlier snapshot.
C1_FreshEquivalenceOnSizeMtime ==
    IsSnapshot =>
        /\ \A p \in DOMAIN FreshState :
              /\ p \in DOMAIN After
              /\ After[p].on_disk = "true"
              /\ After[p].size = FreshState[p].size
              /\ After[p].mtime = FreshState[p].mtime
              /\ After[p].experiment = FreshState[p].experiment
        /\ \A p \in DOMAIN After \ DOMAIN FreshState : After[p].on_disk = "false"

\* a later snapshot that leaves one path removed and absent and one path on disk
\* whose recorded permissions are not the tree's any more
C1_Witness ==
    /\ IsSnapshot
    /\ DOMAIN Before # {}
    /\ \E p \in DOMAIN After : After[p].on_disk = "false" /\ p \notin DOMAIN tree
    /\ \E p \in DOMAIN After :
          /\ After[p].on_disk = "true"
          /\ After[p].permissions # tree[p].permissions

---------------------------------------------------------------------------
(* C3 *)

---------------------------------------------------------------------------
(* C4 *)

---------------------------------------------------------------------------
(* C5 *)

\* the classification the claim gives, on the walk's records and the previous state
ClaimAdded ==
    {p \in DOMAIN Scanned : p \notin DOMAIN Before \/ Before[p].on_disk = "false"}
ClaimModified ==
    {p \in DOMAIN Scanned \cap DOMAIN Before :
        /\ Before[p].on_disk = "true"
        /\ (Scanned[p].size # Before[p].size \/ Scanned[p].mtime # Before[p].mtime)}
ClaimRemoved ==
    {p \in DOMAIN Before : Before[p].on_disk = "true" /\ p \notin DOMAIN Scanned}

\* the rows of the delta file the call wrote (none when it wrote no file)
DeltaRows == UNION {f.rows : f \in NewFiles}
RowsWithStatus(status) == {r \in DeltaRows : r.status = status}

\* C5: a snapshot over a non-empty previous state writes at most one file, a
\* delta; its rows are one per path, status added / modified / removed exactly
\* for the paths the claim's three (disjoint) sets name; the returned triple is
\* the three set sizes and their sum is the number of rows of the delta.
C5_DeltaClassification ==
    (IsSnapshot /\ DOMAIN Before # {}) =>
        /\ Cardinality(NewFiles) <= 1
        /\ \A f \in NewFiles : f.name.kind = "delta"
        /\ \A r1, r2 \in DeltaRows : r1.path = r2.path => r1 = r2
        /\ \A r \in DeltaRows :
              r.status \in {"added", "modified", "removed"} /\ r.on_disk = NullStr
        /\ {r.path : r \in RowsWithStatus("added")} = ClaimAdded
        /\ {r.path : r \in RowsWithStatus("modified")} = ClaimModified
        /\ {r.path : r \in RowsWithStatus("removed")} = ClaimRemoved
        /\ last.ret = <<Cardinality(ClaimAdded), Cardinality(ClaimModified),
                        Cardinality(ClaimRemoved)>>
        /\ last.ret[1] + last.ret[2] + last.ret[3] = Cardinality(DeltaRows)

\* a delta with a removal, beside a path whose permissions or checksum alone
\* differ from the previous state and that gets no row
C5_Witness ==
    /\ IsSnapshot
    /\ DOMAIN Before # {}
    /\ last.ret[3] = 1
    /\ \E p \in DOMAIN Scanned \cap OnDiskPaths(Before) :
          /\ \/ Scanned[p].permissions # Before[p].permissions
             \/ Scanned[p].checksum # Before[p].checksum
          /\ \A r \in DeltaRows : r.path # p

---------------------------------------------------------------------------
(* C2 *)

\* C2: after consolidate every experiment directory reconstructs to the state
\* it reconstructed to before, and count(), count(on_disk_only=True) and
\* total_size() answer what they answered before.
C2_ConsolidatePreserves ==
    IsConsolidate =>
        /\ \A d \in ExpDirs :
              load_current_state(catalog[d]) = load_current_state(last.before[d])
        /\ Counts(catalog, FALSE) = Counts(last.before, FALSE)
        /\ Counts(catalog, TRUE) = Counts(last.before, TRUE)
        /\ TotalSizes(catalog, FALSE) = TotalSizes(last.before, FALSE)

---------------------------------------------------------------------------
(* C6 *)

\* the paths on disk in the previous state that the walk did not record
Vanished == OnDiskPaths(Before) \ DOMAIN Scanned

\* every path the walk recorded is on disk in the previous state, same size and mtime
RestUnchanged(paths) ==
    \A p \in paths :
        /\ p \in OnDiskPaths(Before)
        /\ Scanned[p].size = Before[p].size
        /\ Scanned[p].mtime = Before[p].mtime

\* C6: when k files on disk in the previous state are absent at the next
\* snapshot and nothing else changed, the snapshot returns (0, 0, k), the paths
\* stay tracked with on_disk=false, count() is unchanged, count(on_disk_only)
\* is k less and total_size(on_disk_only) is less by the sum of their sizes.
C6_RemovedStayTracked ==
    (IsSnapshot /\ Vanished # {} /\ RestUnchanged(DOMAIN Scanned)) =>
        LET k == Cardinality(Vanished)
            bytes == SumOver(Vanished, [p \in Vanished |-> Before[p].size])
        IN  /\ last.ret = <<0, 0, k>>
            /\ \A p \in Vanished : p \in DOMAIN After /\ After[p].on_disk = "false"
            /\ Counts(catalog, FALSE) = Counts(last.before, FALSE)
            /\ Counts(catalog, TRUE) = {c - k : c \in Counts(last.before, TRUE)}
            /\ TotalSizes(catalog, TRUE) =
                  {c - bytes : c \in TotalSizes(last.before, TRUE)}

---------------------------------------------------------------------------
(* C7 *)

\* the paths recorded as removed in the previous state that the walk recorded
Restored == DOMAIN Scanned \cap OffDiskPaths(Before)

\* C7: a path recorded as removed that exists again is reported as added, not
\* modified, and is on_disk=true in the reconstructed state and in the rows
\* the query view takes from its experiment; when nothing else changed, the
\* snapshot returns (r, 0, 0) for the r restored paths, count(on_disk_only)
\* grows by r (back to its value before the removals) and count() is unchanged.
C7_RestoredIsAdded ==
    (IsSnapshot /\ Restored # {}) =>
        /\ \A p \in Restored :
              /\ \E r \in RowsWithStatus("added") : r.path = p
              /\ \A r \in RowsWithStatus("modified") : r.path # p
              /\ After[p].on_disk = "true"
              /\ \A out \in Query(catalog) : \A r \in out.files :
                    (r.path = p /\ r.src[1] = last.exp_dir) => r.on_disk = "true"
        /\ (RestUnchanged(DOMAIN Scanned \ Restored) /\ Vanished = {}) =>
              /\ last.ret = <<Cardinality(Restored), 0, 0>>
              /\ Counts(catalog, FALSE) = Counts(last.before, FALSE)
              /\ Counts(catalog, TRUE) =
                    {c + Cardinality(Restored) : c \in Counts(last.before, TRUE)}

---------------------------------------------------------------------------
(* C8 *)

\* the paths whose reconstructed on_disk flag is false, over the experiments
OffDiskTotal(cat) ==
    SumOver(ExpDirs, [d \in ExpDirs |->
        Cardinality(OffDiskPaths(load_current_state(cat[d])))])

\* C8: in every catalog state count() >= count(on_disk_only=True), and the
\* difference is the number of paths whose reconstructed on_disk flag is false.
C8_CountDifference ==
    \A out \in Query(catalog) : out.ok =>
        /\ count(out.files, FALSE) >= count(out.files, TRUE)
        /\ count(out.files, FALSE) - count(out.files, TRUE) = OffDiskTotal(catalog)

---------------------------------------------------------------------------
(* C9 *)

\* a row of 'files' as an entry of a reconstructed state
AsEntry(r) ==
    [path |-> r.path, size |-> r.size, mtime |-> r.mtime,
     permissions |-> r.permissions, checksum |-> r.checksum,
     experiment |-> r.experiment, indexed_at |-> r.indexed_at,
     on_disk |-> r.on_disk]

\* C9: in every catalog state the relation 'files' holds, for every experiment
\* directory and every path of its load_current_state, exactly one row, equal
\* to the reconstructed entry in metadata and on_disk, and no other row.
C9_ViewIsReconstructedState ==
    \A out \in Query(catalog) : out.ok =>
        /\ \A d \in ExpDirs :
              LET state == load_current_state(catalog[d]) IN
              \A p \in DOMAIN state :
                 LET rows == {r \in out.files : r.src[1] = d /\ r.path = p} IN
                 /\ Cardinality(rows) = 1
                 /\ \A r \in rows : AsEntry(r) = state[p]
        /\ \A r \in out.files :
              r.path \in DOMAIN load_current_state(catalog[r.src[1]])

---------------------------------------------------------------------------
(* C10 *)

\* C10: a query during which one snapshot landed its file (at any point between
\* the query's globs and its read) returns the relation a query on the catalog
\* before the snapshot returns, or the one a query on the catalog after it returns.
C10_ReaderSeesBeforeOrAfter ==
    (qpc = "done" /\ IsSnapshot /\ last.before = q.start) =>
        q.out \in Query(q.start) \cup Query(catalog)

---------------------------------------------------------------------------
(* C11 *)

\* the reader's call of load_current_state overlapped one consolidate and no
\* other call: it began during the consolidate, or the consolidate began
\* during it
ReadOverlapsConsolidate ==
    /\ w.op = "consolidate"
    /\ \/ rd.busy /\ clock = rd.tick
       \/ ~rd.busy /\ clock = rd.tick + 1

\* C11: a load_current_state interleaved at any point with a running
\* consolidate either fails or returns the pre-consolidate state of the
\* directory; it never returns a state built from the old base with only some
\* of its deltas.
C11_ReaderSeesConsolidatedState ==
    (rd.pc = "done" /\ ReadOverlapsConsolidate) =>
        rd.state = load_current_state(w.before[rd.dir])

---------------------------------------------------------------------------
(* C12 *)

\* the files of a directory that carry the name the writer is writing
Named(files) == {f \in files : f.name = w.file.name}

\* C12: a snapshot file is written under its '.parquet.tmp' name and gets its
\* final name only once the write has completed: while it is being written no
\* file of that name is matched by '*.parquet', a file under its final name
\* holds all its rows, and after a crash inside snapshot every directory
\* reconstructs to the state it had before the call.
C12_NoPartialFileVisible ==
    /\ w.pc \in {"writing", "written"} =>
          /\ Named(tmp[w.dir]) # {}
          /\ Named(catalog[w.dir]) = {}
    /\ w.pc \in {"writing", "written", "cleanup", "next", "idle", "crashed", "failed"} =>
          \A d \in ExpDirs : \A f \in Named(catalog[d]) :
              d = w.dir => f.rows = w.file.rows
    /\ (w.pc = "crashed" /\ w.op = "snapshot") =>
          \A d \in ExpDirs :
              load_current_state(catalog[d]) = load_current_state(w.before[d])

\* a snapshot of a directory that has a base crashed while its delta was
\* partially written
C12_Witness ==
    /\ w.pc = "crashed" /\ w.op = "snapshot"
    /\ w.file.name.kind = "delta"
    /\ \E t \in Named(tmp[w.dir]) : t.rows # w.file.rows
    /\ catalog[w.dir] # {}

---------------------------------------------------------------------------
(* C13 *)

\* C13: when the write of a snapshot file fails before the file has its final
\* name, the call aborts with the error and no '.tmp' file remains in the
\* experiment directory.
C13_FailedWriteLeavesNoTemp ==
    w.pc = "failed" =>
        /\ tmp[w.dir] = {}
        /\ Named(catalog[w.dir]) = {}

---------------------------------------------------------------------------
(* C14 *)

\* C14: in consolidate no old file of a directory is deleted or moved before
\* the new base has its final name there, and at every point of a consolidate,
\* also when it crashed with any part of the old files removed, every
\* directory reconstructs to its pre-consolidate state.
C14_NewBaseBeforeCleanup ==
    w.op = "consolidate" =>
        \A d \in ExpDirs :
            /\ (w.before[d] \ catalog[d] # {}) =>
                  \E f \in catalog[d] :
                      f.name = FileName("base", w.file.name.ts)
            /\ load_current_state(catalog[d]) = load_current_state(w.before[d])

\* a consolidate crashed in its cleanup: the new base is there, an old delta
\* is gone, the old base is still there
C14_Witness ==
    /\ w.pc = "crashed" /\ w.op = "consolidate"
    /\ w.dir \in ExpDirs
    /\ Named(catalog[w.dir]) # {}
    /\ \E f \in w.before[w.dir] : f.name.kind = "delta" /\ f \notin catalog[w.dir]
    /\ \E f \in w.old : f.name.kind = "base" /\ f \in catalog[w.dir]

---------------------------------------------------------------------------
(* C15 *)

\* the directories a consolidate has to merge: more than one snapshot file
\* and a state that is not empty
Mergeable(cat) ==
    {d \in ExpDirs : Cardinality(cat[d]) > 1
                     /\ DOMAIN load_current_state(cat[d]) # {}}

\* the snapshot files the directories of a set hold
FilesIn(cat, dirs) == SumOver(dirs, [d \in dirs |-> Cardinality(cat[d])])

\* the entries of a reconstructed state
Entries(state) == {state[p] : p \in DOMAIN state}

\* C15: after a completed consolidate every directory that held more than one
\* snapshot file holds exactly one, a base whose rows are exactly the
\* pre-consolidate reconstructed state; the other directories are untouched;
\* the report counts those directories and, without archive_dir, the files
\* they held as files_removed, with files_archived = 0.
C15_OneBasePerDirectory ==
    IsConsolidate =>
        LET merged == Mergeable(last.before) IN
        /\ \A d \in merged :
              /\ Cardinality(catalog[d]) = 1
              /\ \A f \in catalog[d] :
                    /\ f.name.kind = "base"
                    /\ \A x \in f.rows : x.status = NullStr
                    /\ Cardinality(f.rows) =
                          Cardinality(DOMAIN load_current_state(last.before[d]))
                    /\ {Entry(x, x.on_disk) : x \in f.rows} =
                          Entries(load_current_state(last.before[d]))
        /\ \A d \in ExpDirs \ merged : catalog[d] = last.before[d]
        /\ last.stats[1] = Cardinality(merged)
        /\ ~last.archive_dir =>
              /\ last.stats[2] = FilesIn(last.before, merged)
              /\ last.stats[3] = 0

\* a consolidate without archive_dir merged a directory of a base and a delta
\* and left alone a directory of a single base
C15_Witness ==
    /\ IsConsolidate /\ ~last.archive_dir
    /\ Mergeable(last.before) # {}
    /\ \E d \in ExpDirs : Cardinality(last.before[d]) = 1
    /\ last.stats[2] >= 2

---------------------------------------------------------------------------
(* C16 *)

\* C16: consolidate with archive_dir moves every prior snapshot file of a
\* merged directory into the archive directory of its experiment under its
\* name: each is there afterwards with its rows, files_archived is their
\* number and files_removed is 0.
C16_ArchiveKeepsOldFiles ==
    (IsConsolidate /\ last.archive_dir) =>
        LET merged == Mergeable(last.before) IN
        /\ \A d \in merged :
              /\ last.before[d] \subseteq archive[d]
              /\ last.before[d] \cap catalog[d] = {}
        /\ last.stats[3] = FilesIn(last.before, merged)
        /\ last.stats[2] = 0

\* a consolidate with archive_dir moved a base and a delta
C16_Witness ==
    /\ IsConsolidate /\ last.archive_dir
    /\ last.stats[3] >= 2
    /\ \E d \in ExpDirs : \E f \in archive[d] : f.name.kind = "delta"

---------------------------------------------------------------------------
(* C17 *)

\* every snapshot file of the catalog
AllFiles == UNION {catalog[d] : d \in ExpDirs}

\* C17 (invariant I1): in every reachable catalog state every row of a base
\* file has on_disk set and status null, and every row of a delta file has a
\* status among added, modified, removed and on_disk null.
C17_OneDiscriminator ==
    \A f \in AllFiles : \A x \in f.rows :
        IF f.name.kind = "base"
        THEN x.on_disk \in {"true", "false"} /\ x.status = NullStr
        ELSE x.status \in {"added", "modified", "removed"} /\ x.on_disk = NullStr

\* a catalog with a base that holds a row flagged false and a delta that
\* holds rows of two kinds
C17_Witness ==
    /\ \E f \in AllFiles : f.name.kind = "base" /\ \E x \in f.rows : x.on_disk = "false"
    /\ \E f \in AllFiles : f.name.kind = "delta"
          /\ \E x, y \in f.rows : x.status = "added" /\ y.status = "removed"

---------------------------------------------------------------------------
(* C18 *)

\* C18: every row of every base file in any reachable catalog state is
\* flagged on_disk=true.
C18_BaseRowsOnDisk ==
    \A f \in AllFiles : f.name.kind = "base" =>
        \A x \in f.rows : x.on_disk = "true"

\* a base whose rows were all indexed by the call that wrote it: the base of
\* a first snapshot (consolidate carries rows indexed by earlier calls)
WrittenBySnapshot(f) == \A x \in f.rows : x.indexed_at = f.name.ts

\* C18 as the code has it: every row of a base written by a first snapshot is
\* flagged on_disk=true; each row of a base written by consolidate carries
\* the on_disk flag its path has in the pre-consolidate reconstructed state,
\* false for a path recorded as removed.
C18_BaseRowsCarryState ==
    /\ \A f \in AllFiles : (f.name.kind = "base" /\ WrittenBySnapshot(f)) =>
          \A x \in f.rows : x.on_disk = "true"
    /\ IsSnapshot => \A f \in NewFiles : f.name.kind = "base" =>
          WrittenBySnapshot(f)
    /\ IsConsolidate => \A d \in ExpDirs : \A f \in catalog[d] \ last.before[d] :
          /\ f.name.kind = "base"
          /\ \A x \in f.rows :
                x.on_disk = load_current_state(last.before[d])[x.path].on_disk

\* a consolidate has written a base with a row flagged false beside a
\* directory whose base a first snapshot wrote
C18_Witness ==
    /\ IsConsolidate
    /\ \E d \in ExpDirs : \E f \in catalog[d] \ last.before[d] :
          \E x \in f.rows : x.on_disk = "false"
    /\ \E f \in AllFiles : f.name.kind = "base" /\ WrittenBySnapshot(f)

---------------------------------------------------------------------------
(* C19 *)

---------------------------------------------------------------------------
(* C20 *)

\* prefix is literally the beginning of text
StartsWith(text, prefix) ==
    Len(text) >= Len(prefix) /\ SubSeq(text, 1, Len(prefix)) = prefix

\* the first component of text after its first n characters
FirstComponent(text, n) ==
    LET rest == SubSeq(text, n + 1, Len(text))
    IN  IF \E i \in 1..Len(rest) : rest[i] = "/"
        THEN SubSeq(rest, 1, (CHOOSE i \in 1..Len(rest) :
                 rest[i] = "/" /\ \A j \in 1..(i - 1) : rest[j] # "/") - 1)
        ELSE rest

\* C20: ls_dirs(path) aggregates exactly the rows whose parent_path begins
\* with the literal text path + "/", whatever characters path contains: each
\* entry of the result is a first component after that prefix with the number
\* of such rows below it and the sum of their sizes, every such component has
\* its entry, and the entries are sorted by dirname.
C20_LsDirsLiteralPrefix ==
    (call.pc = "returned" /\ call.op = "ls_dirs") =>
        LET prefix == Rstrip(call.args.path) \o <<"/">>
            below == {row \in call.files :
                         /\ StartsWith(row.parent_path, prefix)
                         /\ call.args.on_disk_only => row.on_disk = "true"}
            under(n) == {row \in below :
                            FirstComponent(row.parent_path, Len(prefix)) = n}
        IN  /\ {e.dirname : e \in Range(call.out)} =
                  {FirstComponent(row.parent_path, Len(prefix)) : row \in below}
            /\ \A e \in Range(call.out) :
                  /\ e.file_count = Cardinality(under(e.dirname))
                  /\ e.total_size =
                        SumOver(under(e.dirname), [row \in under(e.dirname) |-> row.size])
            /\ \A i \in 1..Len(call.out) : \A j \in 1..Len(call.out) :
                  i < j => TextBefore(call.out[i].dirname, call.out[j].dirname)

---------------------------------------------------------------------------
(* C21 *)

\* the paths a walk has yielded
Yielded == Range(call.file_args)

\* C21: in both walker modes every symbolic link of the tree (to a file, to a
\* directory, to nothing) is yielded as a file entry, and no path below a link
\* to a directory is yielded.
C21_SymlinksYieldedNotDescended ==
    call.pc = "walked" =>
        /\ \A p \in DOMAIN call.walk_fs :
              call.walk_fs[p].type = "lnk" => p \in Yielded
        /\ \A y \in Yielded : \A i \in 1..(Len(y) - 1) :
              ~IsLink(call.walk_fs, SubSeq(y, 1, i))

---------------------------------------------------------------------------
(* C22 *)

\* the outcome of the snapshot that has just been written, had it run with the
\* given number of workers
OutcomeWith(workers) ==
    SnapshotWith(call.before, call.timestamp, call.walk_fs, call.scan_fs, workers,
                 call.compute_checksum)

RecordsWith(workers) ==
    _process_batch(call.scan_fs, FileArgs(call.walk_fs, workers),
                   call.compute_checksum, NoLabel, call.timestamp)

\* C22: on the same tree and the same previous state, a snapshot with
\* workers > 1 captures the same records, returns the same triple and leaves
\* the same reconstructed state as a snapshot with workers = 1.
C22_WorkersEquivalent ==
    call.pc = "written" =>
        /\ catalog[ScanDir] = OutcomeWith(call.workers).files
        /\ RecordsWith(1) = RecordsWith(2)
        /\ OutcomeWith(1).ret = OutcomeWith(2).ret
        /\ load_current_state(OutcomeWith(1).files)
             = load_current_state(OutcomeWith(2).files)

---------------------------------------------------------------------------
(* C23 *)

\* C23: a record carries a checksum only when compute_checksum was requested
\* and lstat of its path says regular file; the record of a link, of a fifo
\* and every record of a scan without compute_checksum has a null checksum.
C23_ChecksumOnlyForRegularFiles ==
    call.pc = "scanned" =>
        \A r \in call.records :
            r.checksum # NoChecksum =>
                /\ call.compute_checksum
                /\ \E n \in Lstat(call.scan_fs, r.path) : n.type = "reg"

---------------------------------------------------------------------------
(* C24 *)

\* the paths of the batch whose scan raised an OS error
Skipped ==
    {p \in Yielded :
        ScanFile(call.scan_fs, p, call.compute_checksum, NoLabel, call.timestamp) = {}}

\* the rows of the file the snapshot has written (none when it wrote no file)
WrittenRows == UNION {f.rows : f \in catalog[ScanDir] \ call.before}

\* the other files of the batch are recorded: each has its record, and is on
\* disk in the reconstructed state
OthersRecorded ==
    \A p \in Yielded \ Skipped :
        /\ \E r \in call.records : r.path = p
        /\ p \in DOMAIN load_current_state(catalog[ScanDir])
        /\ load_current_state(catalog[ScanDir])[p].on_disk = "true"

\* C24 as stated: an OS error while scanning a file skips that file only; the
\* other files of the batch are recorded and the skipped file has no row in
\* the written snapshot file.
C24_SkippedHasNoRow ==
    call.pc = "written" =>
        /\ OthersRecorded
        /\ \A p \in Skipped : ~\E r \in WrittenRows : r.path = p

\* C24 amended: an OS error while scanning a file skips that file only; the
\* other files of the batch are recorded, and the written snapshot file has no
\* base, added or modified row for the skipped file; when the previous state
\* holds the skipped file on_disk=true, the delta records it as removed.
C24_SkippedHasNoPresentRow ==
    call.pc = "written" =>
        /\ OthersRecorded
        /\ \A p \in Skipped :
              /\ \A r \in WrittenRows : r.path = p => r.status = "removed"
              /\ (/\ p \in DOMAIN load_current_state(call.before)
                  /\ load_current_state(call.before)[p].on_disk = "true")
                 => \E r \in WrittenRows : r.path = p /\ r.status = "removed"

\* a delta has been written after a scan that skipped a tracked file and
\* recorded another
C24_Witness ==
    /\ call.pc = "written"
    /\ \E p \in Skipped : \E r \in WrittenRows : r.path = p /\ r.status = "removed"
    /\ Yielded \ Skipped # {}

---------------------------------------------------------------------------
(* C25 *)

\* the change-set of the snapshot that has just run
ChangeSet ==
    AddedPaths(Scanned, Before) \cup ModifiedPaths(Scanned, Before)
        \cup RemovedPaths(Scanned, Before)

\* C25: a snapshot with empty input (no file scanned, no previous state) writes
\* no file and returns (0, 0, 0), a snapshot with an empty change-set writes no
\* delta, and every snapshot file under a final name holds at least one row.
C25_NoEmptySnapshotFile ==
    /\ \A d \in ExpDirs : \A f \in catalog[d] : f.rows # {}
    /\ (IsSnapshot /\ DOMAIN Scanned = {} /\ DOMAIN Before = {})
          => (NewFiles = {} /\ last.ret = <<0, 0, 0>>)
    /\ (IsSnapshot /\ DOMAIN Before # {} /\ ChangeSet = {})
          => (NewFiles = {} /\ last.ret = <<0, 0, 0>>)

\* a snapshot of an empty tree into an empty directory has returned, and the
\* other directory holds a base and a delta
C25_Witness ==
    /\ IsSnapshot /\ DOMAIN Scanned = {} /\ DOMAIN Before = {}
    /\ last.ret = <<0, 0, 0>>
    /\ \E d \in ExpDirs : \E f \in catalog[d] : f.name.kind = "delta"

---------------------------------------------------------------------------
(* C26 *)

\* C26: a snapshot of experiment E adds at most one file, in E's directory
\* only, and leaves every snapshot file that exists in any experiment directory
\* as it is (same name, same rows); a file disappears from a directory only by
\* consolidate.
C26_SnapshotOnlyAdds ==
    /\ IsSnapshot =>
          /\ \A d \in ExpDirs \ {last.exp_dir} : catalog[d] = last.before[d]
          /\ last.before[last.exp_dir] \subseteq catalog[last.exp_dir]
          /\ Cardinality(NewFiles) <= 1
    /\ (last.op # "none" /\ \E d \in ExpDirs : last.before[d] \ catalog[d] # {})
          => IsConsolidate

\* a snapshot has added a delta to a directory that held files, while the
\* other directory holds files too
C26_Witness ==
    /\ IsSnapshot
    /\ last.before[last.exp_dir] # {}
    /\ \E f \in NewFiles : f.name.kind = "delta"
    /\ \E d \in ExpDirs \ {last.exp_dir} : catalog[d] # {}

---------------------------------------------------------------------------
(* C27 *)

\* a decimal number: digits, with at most one point
IsDecimal(text) == ParseFloat(text).ok /\ " " \notin Range(text)

\* the exponent of 2 the claim gives a unit
UnitExponent(unit) ==
    LET i == CHOOSE j \in 1..Len(units) : units[j].unit = unit IN units[i].exponent

\* C27: parse_size of a decimal number followed by B, KB, MB, GB or TB returns
\* the number times 1, 2^10, 2^20, 2^30, 2^40; a raw integer with no unit is
\* returned as bytes.
C27_ParseSizeUnits ==
    (call.pc = "returned" /\ call.size_str = call.number \o call.unit) =>
        /\ (IsDecimal(call.number) /\ \E j \in 1..Len(units) : units[j].unit = call.unit)
              => (call.out.ok
                  /\ call.out.value = Scaled(ParseFloat(call.number), UnitExponent(call.unit)))
        /\ (ParseInt(call.number).ok /\ call.unit = <<>>)
              => (call.out.ok /\ call.out.value = ParseInt(call.number).value)

---------------------------------------------------------------------------
(* C28 *)

\* C28: in the SQLite catalog the rows are keyed by (path, purge_date): at
\* every moment no two rows share the pair and count() is the number of
\* distinct (path, purge_date) pairs scanned so far, so a repeated snapshot
\* with the same purge_date replaces, a snapshot with another purge_date adds,
\* and the count is the same after close and reopen.
C28_CountIsDistinctPairs ==
    /\ \A r1 \in View, r2 \in View :
          (r1.path = r2.path /\ r1.purge_date = r2.purge_date) => r1 = r2
    /\ Cardinality(View) = Cardinality(call.scanned)
    /\ call.op = "count" => call.out = Cardinality(call.scanned)

\* count() has answered on a reopened database in which a path is held under
\* two purge dates and some pair was scanned more than once
C28_Witness ==
    /\ call.op = "count" /\ call.reopened
    /\ call.inserts > Cardinality(call.scanned)
    /\ \E r1 \in View, r2 \in View :
          r1.path = r2.path /\ r1.purge_date # r2.purge_date

---------------------------------------------------------------------------
(* C29 *)

\* the naive view: every snapshot file is loaded, the rows are ranked by
\* indexed_at descending per path, and rank 1 is kept
NaiveFiles(cat) ==
    IF \A d \in ExpDirs : cat[d] = {}
    THEN {QueryError}
    ELSE {QueryOk({ViewRow(t, EffectiveOnDisk(t)) : t \in ranked}) :
             ranked \in Ranked(ReadParquet(cat, ExpDirs))}

\* C29: in every reachable catalog (any mix of base-only and has-deltas
\* experiments, also experiments that recorded the same path) the relation
\* 'files' of _query_with_dedup, by whichever of its three paths, is the
\* relation of the naive view.
C29_SelectiveEqualsNaive == Query(catalog) = NaiveFiles(catalog)

---------------------------------------------------------------------------
(* C30 *)

\* the clock reading a timestamp was made from: the moment its file was created
Tick(ts) == IF Len(ts) = 1 THEN ts[1] ELSE 10 * ts[1] + ts[2]

\* the delta a snapshot has just written, with the base that was current then
DeltaAfterItsBase ==
    (w.op = "snapshot" /\ w.pc = "idle" /\ w.file \in catalog[w.dir]
        /\ w.file.name.kind = "delta") =>
        \E b \in _find_latest_base(w.before[w.dir]) :
            NameLess([b.name EXCEPT !.kind = "delta"], w.file.name)

\* the deltas load_current_state applies over the current base are those
\* created after it
AppliedAreTheLater ==
    \A d \in ExpDirs : \A b \in _find_latest_base(catalog[d]) :
        Range(_find_deltas_after_base(catalog[d], b))
          = {g \in catalog[d] : g.name.kind = "delta" /\ Tick(g.name.ts) > Tick(b.name.ts)}

\* a consolidate has given its new base the final name in a directory
NewBaseLanded ==
    w.op = "consolidate" /\ w.dir \in ExpDirs /\ w.file \in catalog[w.dir]

\* C30 as stated: every delta a snapshot writes sorts strictly after the
\* paired name of the base current when it was written, every base consolidate
\* writes sorts strictly after every file already in the directory, and
\* load_current_state applies the deltas written since the current base and
\* none written before it.
C30_NameOrderIsCreationOrder ==
    /\ DeltaAfterItsBase
    /\ NewBaseLanded =>
          \A g \in w.before[w.dir] : NameLess(g.name, w.file.name)
    /\ AppliedAreTheLater

\* C30 amended: the base consolidate writes carries a timestamp that sorts
\* strictly after the timestamp of every file already in the directory (its
\* name sorts after every earlier base, its paired name after every earlier
\* delta; the name itself sorts before every delta); the rest as stated.
C30_TimestampOrderIsCreationOrder ==
    /\ DeltaAfterItsBase
    /\ NewBaseLanded =>
          \A g \in w.before[w.dir] :
              /\ TextLess(g.name.ts, w.file.name.ts)
              /\ g.name.kind = "base" => NameLess(g.name, w.file.name)
              /\ g.name.kind = "delta"
                    => NameLess(g.name, [w.file.name EXCEPT !.kind = "delta"])
    /\ AppliedAreTheLater

\* the new base of a consolidate, created when the clock's text had grown by a
\* digit, stands beside a delta written before it, which is not applied
C30_Witness ==
    /\ NewBaseLanded
    /\ w.file.name.ts = Strftime(10)
    /\ \E g \in catalog[w.dir] : g.name.kind = "delta" /\ Tick(g.name.ts) = 9
    /\ _find_deltas_after_base(catalog[w.dir], w.file) = <<>>

---------------------------------------------------------------------------
(* C31 *)

\* the fields of an entry other than on_disk and indexed_at
Kept(entry) ==
    [path |-> entry.path, size |-> entry.size, mtime |-> entry.mtime,
     permissions |-> entry.permissions, checksum |-> entry.checksum,
     experiment |-> entry.experiment]

\* C31: applying a delta row with status removed changes, of an entry the
\* map holds for the path, only on_disk (to false) and indexed_at (to the
\* row's), and changes nothing when the map holds no entry for the path; a
\* row with status added or modified puts the row, with on_disk true, at its
\* path; every entry at another path stays as it was
C31_ApplyRowFrame ==
    call.pc = "applied" =>
        LET state == call.state
            record == call.record
            out == call.out
            path == record.path
        IN  /\ \A p \in DOMAIN state \ {path} :
                  p \in DOMAIN out /\ out[p] = state[p]
            /\ DOMAIN out \subseteq DOMAIN state \cup {path}
            /\ record.status = "removed" /\ path \in DOMAIN state =>
                  /\ path \in DOMAIN out
                  /\ out[path].on_disk = "false"
                  /\ out[path].indexed_at = record.indexed_at
                  /\ Kept(out[path]) = Kept(state[path])
            /\ record.status = "removed" /\ path \notin DOMAIN state =>
                  out = state
            /\ record.status \in {"added", "modified"} =>
                  /\ path \in DOMAIN out
                  /\ out[path] = Entry(record, "true")

\* a removal applied to a two-entry state that holds the path on disk, with
\* another size than the row's
C31_Witness ==
    /\ call.pc = "applied"
    /\ call.record.status = "removed"
    /\ DOMAIN call.state = Paths
    /\ call.state[call.record.path].on_disk = "true"
    /\ call.state[call.record.path].size # call.record.size
    /\ call.out # call.state

---------------------------------------------------------------------------
(* C32 *)

\* C32: reconstruction is deterministic: on a directory holding a given set
\* of snapshot files every run of load_current_state returns the same map,
\* in whatever order the directory lists its files; the map is the one the
\* writers reconstruct from the same files at any tick of the clock and
\* after any operations
C32_ReconstructionDeterministic ==
    \A d \in ExpDirs : Runs(catalog[d]) = {load_current_state(catalog[d])}

\* a directory with a base and two deltas that record the same path, left
\* as it was by the call that ran last
C32_Witness ==
    \E d \in ExpDirs :
        /\ last.op # "none"
        /\ last.before[d] = catalog[d]
        /\ \E f, g \in catalog[d] :
              /\ f # g
              /\ f.name.kind = "delta" /\ g.name.kind = "delta"
              /\ \E x \in f.rows, y \in g.rows :
                    x.path = y.path /\ x.status # y.status

---------------------------------------------------------------------------
(* C33 *)

\* the generator has ended: its pool is shut down
WalkFinished == call.pc # "idle" /\ ~call.walk_pool

Occurrences(seq, x) == Cardinality({i \in 1..Len(seq) : seq[i] = x})

Parent(p) == SubSeq(p, 1, Len(p) - 1)

\* the directories reached from the root through readable directories, no
\* link followed; when typed_only is set, only through entries whose type
\* can be read
ReachableDirs(fs, typed_only) ==
    {d \in DOMAIN fs :
        /\ \A n \in 1..Len(d) :
              LET a == SubSeq(d, 1, n)
              IN  /\ a \in DOMAIN fs
                  /\ fs[a].type = "dir"
                  /\ n < Len(d) => fs[a].readable
                  /\ typed_only => fs[a].typed}

\* the entries of those directories (the readable ones) that are no directory
FileEntries(fs, typed_only) ==
    {e \in DOMAIN fs :
        /\ Len(e) > 1
        /\ Parent(e) \in ReachableDirs(fs, typed_only)
        /\ fs[Parent(e)].readable
        /\ fs[e].type # "dir"
        /\ typed_only => fs[e].typed}

\* at the end of the walk nothing is pending or in flight, the scans are the
\* directories dirs, once each, and the yielded paths the entries files, once
\* each
WalkedExactly(dirs, files) ==
    WalkFinished =>
        /\ call.pending_dirs = <<>> /\ call.pending_files = <<>>
        /\ AllDone(call.futures) /\ call.collected = Len(call.futures)
        /\ Range(call.scans) = dirs
        /\ \A d \in dirs : Occurrences(call.scans, d) = 1
        /\ Range(call.file_args) = files
        /\ \A e \in files : Occurrences(call.file_args, e) = 1

\* C33 as stated: for every finite tree and every workers >= 2 the walk
\* ends, with every directory reachable without a link scanned exactly once
\* and every non-directory entry of those directories yielded exactly once,
\* in whatever order the scans of a round complete; an unreadable directory
\* prunes its own subtree and nothing else
C33_WalkCompleteAndTerminates ==
    /\ [](WalkedExactly(ReachableDirs(tree, FALSE), FileEntries(tree, FALSE)))
    /\ <>WalkFinished

\* C33, amended: the same for the directories reached through entries whose
\* type can be read and for the non-directory entries whose type can be read:
\* an entry on which is_dir raises OSError is neither scanned nor yielded
C33_TypedWalkCompleteAndTerminates ==
    /\ [](WalkedExactly(ReachableDirs(tree, TRUE), FileEntries(tree, TRUE)))
    /\ <>WalkFinished

\* the walk of a tree with an unreadable directory, a link to a directory and
\* an entry of unknown type has ended, and r/b was scanned before r/a
C33_Witness ==
    /\ WalkFinished
    /\ ~tree[DirPath].readable
    /\ LinkPath \in DOMAIN tree
    /\ DeepPath \in DOMAIN tree /\ ~tree[DeepPath].typed
    /\ \E i, j \in 1..Len(call.scans) :
          i < j /\ call.scans[i] = <<"r", "b">> /\ call.scans[j] = <<"r", "a">>

---------------------------------------------------------------------------
(* C34 *)

\* the directories of the round whose scan has not returned
InFlight == {i \in 1..Len(call.futures) : ~call.futures[i].done}

\* the directories whose result the coordinating thread has taken
Taken ==
    {d \in Range(call.scans) :
        \A i \in 1..Len(call.futures) :
            call.futures[i].arg = d => i <= call.collected}

\* the frontier with the round in flight and the scans done
Known ==
    call.pending_dirs
        \o [i \in 1..Len(call.futures) |-> call.futures[i].arg]
        \o SelectSeq(call.scans,
                     LAMBDA d : \A i \in 1..Len(call.futures) : call.futures[i].arg # d)

\* a step of a pool's thread: a scan returns
WorkerStep ==
    \/ \E i \in 1..Len(call.futures) :
          /\ i <= Len(call.futures')
          /\ ~call.futures[i].done /\ call.futures'[i].done
    \/ \E i \in 1..Len(call.tasks) :
          /\ i <= Len(call.tasks')
          /\ ~call.tasks[i].done /\ call.tasks'[i].done

\* C34: a round submits at most 2*workers directory scans and never more are
\* outstanding; no step of a worker changes the frontier or the pending
\* files, which grow only when the coordinating thread takes the result of a
\* scan that has returned; no directory is in the frontier, in flight or
\* scanned twice, and every subdirectory found by a taken scan is in the
\* frontier, in flight or scanned
C34_CoordinatorOwnsFrontier ==
    /\ [](/\ Len(call.futures) <= 2 * call.workers
          /\ Len(call.futures) - call.collected <= 2 * call.workers
          /\ \A d \in Range(Known) : Occurrences(Known, d) = 1
          /\ \A d \in Taken :
                Range(_scan_directory(tree, d).subdirs) \subseteq Range(Known))
    /\ [][/\ WorkerStep =>
               /\ call.pending_dirs' = call.pending_dirs
               /\ call.pending_files' = call.pending_files
          /\ (\/ Len(call.pending_dirs') > Len(call.pending_dirs)
              \/ Len(call.pending_files') > Len(call.pending_files)) =>
               \/ call.pc = "idle"
               \/ /\ call.collected' = call.collected + 1
                  /\ call.futures[call.collected'].done
                  /\ call.futures' = call.futures]_vars

\* a full round of 2*workers scans with a directory left in the frontier,
\* the second scan back before the first
C34_Witness ==
    /\ Len(call.futures) = 2 * call.workers
    /\ call.pending_dirs # <<>>
    /\ call.collected = 0
    /\ ~call.futures[1].done /\ call.futures[2].done

---------------------------------------------------------------------------
(* C35 *)

\* C35: the phases of a snapshot follow one another: no scan pool is opened
\* before the walk pool is shut down, a directory scan runs only in the open
\* walk pool and a file scan only in an open scan pool, and the previous
\* state is reconstructed and the file written only when every batch has
\* been scanned and its pool shut down
C35_PhasesSequential ==
    /\ ~(call.walk_pool /\ call.scan_pool)
    /\ call.walk_pool =>
          call.tasks = <<>> /\ call.current_files = <<>> /\ call.next = 1
    /\ InFlight # {} => call.walk_pool
    /\ ~AllDone(call.tasks) => call.scan_pool
    /\ call.scan_pool => InFlight = {} /\ call.pc = "map"
    /\ call.pc \in {"write", "done"} =>
          /\ ~call.walk_pool /\ ~call.scan_pool
          /\ call.next > Len(call.file_args)
          /\ AllDone(call.tasks)
    /\ catalog[ScanDir] # {} => call.pc = "done"

\* a snapshot that went through more than one scan pool has written its file
C35_Witness ==
    /\ call.pc = "done"
    /\ Len(call.file_args) > ScanBatch
    /\ catalog[ScanDir] # {}
    /\ Len(call.current_files) < Len(call.file_args)

---------------------------------------------------------------------------
(* C36 *)

\* the call that ran last has put its file under its final name
WriteCompleted ==
    /\ w.pc = "idle"
    /\ w.op \in {"snapshot", "consolidate"}
    /\ w.dir \in ExpDirs
    /\ w.file \in catalog[w.dir]

\* C36: once a snapshot or a consolidate has completed a write into an
\* experiment directory, the directory holds no '.tmp' file: what an earlier
\* aborted call left there has been cleaned up
C36_TempCleanedByNextWrite ==
    WriteCompleted => tmp[w.dir] = {}

---------------------------------------------------------------------------
(* C37 *)

\* the directories whose files a consolidate has changed
Touched == {d \in ExpDirs : catalog[d] # last.before[d]}

\* a consolidate that runs right after a consolidate: no other call and no
\* change of the tree lies between the two
ConsolidateAgain ==
    /\ IsConsolidate
    /\ last'.op = "consolidate"
    /\ clock' = clock + 1

\* C37: consolidate changes only directories that held more than one
\* snapshot file and leaves a directory with a single file as it was; it
\* counts the directories it changed; and a consolidate that runs right
\* after a completed consolidate changes no file, archives nothing and
\* reports experiments = 0, files_removed = 0, files_archived = 0
C37_ConsolidateIdempotent ==
    /\ [](IsConsolidate =>
            /\ \A d \in Touched : Cardinality(last.before[d]) > 1
            /\ \A d \in ExpDirs :
                  Cardinality(last.before[d]) <= 1 => catalog[d] = last.before[d]
            /\ last.stats[1] = Cardinality(Touched)
            /\ \A d \in ExpDirs : Cardinality(catalog[d]) <= 1)
    /\ [][ConsolidateAgain =>
            /\ catalog' = catalog
            /\ archive' = archive
            /\ last'.stats = <<0, 0, 0>>]_vars

\* a consolidate has found nothing to do one tick after a consolidate that
\* merged a directory into a new base and archived the old files
C37_Witness ==
    /\ IsConsolidate
    /\ last.stats = <<0, 0, 0>>
    /\ \E d \in ExpDirs :
          /\ archive[d] # {}
          /\ \E f \in catalog[d] : f.name = FileName("base", Strftime(clock - 2))

---------------------------------------------------------------------------
(* C38 *)

Bases(files) == {f \in files : f.name.kind = "base"}

\* C38: after any sequence of completed snapshots and consolidates every
\* experiment directory holds at most one base: a snapshot adds a base only
\* to a directory without one, whose reconstructed state is empty, and a
\* consolidate that lands a new base leaves no older base beside it
C38_AtMostOneBase ==
    /\ \A d \in ExpDirs : Cardinality(Bases(catalog[d])) <= 1
    /\ IsSnapshot /\ Bases(NewFiles) # {} =>
          /\ DOMAIN Before = {}
          /\ Bases(last.before[last.exp_dir]) = {}
    /\ IsConsolidate =>
          \A d \in ExpDirs :
              Bases(catalog[d]) # Bases(last.before[d]) =>
                  /\ Bases(last.before[d]) # {}
                  /\ Bases(catalog[d]) \cap Bases(last.before[d]) = {}

\* a directory whose files were all recorded as removed gets a delta and no
\* second base when a file is found again
C38_Witness ==
    /\ IsSnapshot
    /\ OnDiskPaths(Before) = {} /\ DOMAIN Before # {}
    /\ OnDiskPaths(After) # {}
    /\ Cardinality(Bases(catalog[last.exp_dir])) = 1
    /\ NewFiles # {}

---------------------------------------------------------------------------
(* C39 *)

\* the paths the previous state holds on disk and the scan has no record of
Missing == {p \in OnDiskPaths(Before) : p \notin DOMAIN Scanned}

\* the paths of the rows with a given status in the file the call wrote
Reported(status) ==
    {r.path : r \in {x \in UNION {f.rows : f \in NewFiles} : x.status = status}}

\* C39: a snapshot reports as removed exactly the paths that the previous
\* state holds on_disk=true and the scan has no record of, among them a file
\* that is still in the tree but was skipped (unreadable, with
\* compute_checksum on); each gets a row with status removed and is
\* on_disk=false afterwards; a path that is on_disk=false in the previous
\* state and is scanned is reported as added
C39_RemovedIsMissingFromScan ==
    IsSnapshot =>
        /\ last.ret[3] = Cardinality(Missing)
        /\ Reported("removed") = Missing
        /\ \A p \in Missing : After[p].on_disk = "false"
        /\ \A p \in DOMAIN tree :
              last.checksum /\ ~Readable(tree[p]) /\ p \in OnDiskPaths(Before) =>
                  p \in Reported("removed")
        /\ \A p \in OffDiskPaths(Before) \cap DOMAIN Scanned :
              /\ p \in Reported("added")
              /\ After[p].on_disk = "true"
        /\ last.ret[1] >= Cardinality(OffDiskPaths(Before) \cap DOMAIN Scanned)

\* an unreadable file that never left the tree is recorded again, as added,
\* by a snapshot without checksum after a snapshot with checksum had skipped
\* it and recorded it as removed
C39_Witness ==
    /\ IsSnapshot /\ ~last.checksum
    /\ \E p \in DOMAIN tree :
          /\ ~Readable(tree[p])
          /\ p \in OffDiskPaths(Before) \cap DOMAIN Scanned
          /\ Before[p].size = tree[p].size /\ Before[p].mtime = tree[p].mtime
          /\ Before[p].permissions = tree[p].permissions
          /\ p \in Reported("added")

---------------------------------------------------------------------------
(* C40 *)

\* the paths of the tree as texts
PathText ==
    ("/r/a" :> <<"/", "r", "/", "a">>) @@ ("/r/b" :> <<"/", "r", "/", "b">>)

\* the patterns find is called with
PathPatterns ==
    {<<"%">>, <<"%", "a">>, <<"/", "r", "/", "_">>, <<"/", "r", "/", "b">>, <<"x">>}

\* the rows of the view find returns for a pattern and the two flags
FindFlagged(files, pattern, on_disk_only, removed_only) ==
    LET rows == {[row EXCEPT !.path = PathText[row.path]] : row \in files}
        a == [pattern |-> pattern, exclude |-> <<>>, size_gt |-> {}, size_lt |-> {},
              experiment |-> {}, on_disk_only |-> on_disk_only,
              removed_only |-> removed_only, skip_symlinks |-> FALSE]
    IN  UNION {Range(out) : out \in find(rows, a)}

\* the columns of a row find hands back: the FileEntry
FileEntry(row) ==
    [path |-> row.path, size |-> row.size, mtime |-> row.mtime,
     permissions |-> row.permissions, checksum |-> row.checksum,
     experiment |-> row.experiment, indexed_at |-> row.indexed_at]

\* every row of the view has an on_disk value, and for every pattern the two
\* flags split the rows of find: nothing is in both results, nothing of
\* find(p) is in neither, and both flags together select nothing
FlagsPartition(files) ==
    /\ \A row \in files : row.on_disk \in {"true", "false"}
    /\ \A p \in PathPatterns :
          LET all == FindFlagged(files, p, FALSE, FALSE)
              on == FindFlagged(files, p, TRUE, FALSE)
              off == FindFlagged(files, p, FALSE, TRUE)
          IN  /\ on \cap off = {}
              /\ {FileEntry(row) : row \in on} \cap {FileEntry(row) : row \in off} = {}
              /\ on \cup off = all
              /\ FindFlagged(files, p, TRUE, TRUE) = {}

\* the path's latest record in the catalog, by indexed_at, is a removal
LatestIsRemoval(path) ==
    \A t \in RankFirst(ReadParquet(catalog, ExpDirs)) :
        t.row.path = path => EffectiveOnDisk(t) = "false"

\* removed_only returns only paths whose latest record is a removal
RemovedAreLatest(files) ==
    \A p \in PathPatterns :
        \A row \in FindFlagged(files, p, FALSE, TRUE) :
            \E path \in Paths : PathText[path] = row.path /\ LatestIsRemoval(path)

\* C40: in every reachable catalog the effective on_disk of every row of the
\* view is non-null, so for every pattern find(p, on_disk_only) and
\* find(p, removed_only) are disjoint and together are find(p), both flags
\* together return nothing, and removed_only returns only paths whose latest
\* record is a removal
C40_FlagsSplitFind ==
    \A out \in Query(catalog) :
        out.ok => FlagsPartition(out.files) /\ RemovedAreLatest(out.files)

====
